---- MODULE Spec2Model ----
(***************************************************************************)
(* Model of the tool-call orchestration engine of js/chat-controller.js    *)
(* (ChatController): chatHistory, executedToolCalls, hasResumed and the    *)
(* async call stack of sendMessage / handleOpenAIMessage /                 *)
(* handleGeminiMessage / processToolCall.                                  *)
(*                                                                         *)
(* JavaScript runs one task at a time: the code between two awaits of a    *)
(* network request is atomic.  The stack holds one frame per active async  *)
(* function; a frame whose pc ends in "_await" is suspended on a network   *)
(* request (model generation, tool backend, pagination decision, token     *)
(* count).  Only then may another event handler (clearChat) run.           *)
(***************************************************************************)
EXTENDS Integers, Sequences, FiniteSets, TLC

VARIABLES
    chatHistory,        \* let chatHistory (line 10): sequence of Turns
    executedToolCalls,  \* let executedToolCalls (line 17): set of callKeys
    hasResumed,         \* let hasResumed (line 19)
    settings,           \* let settings (line 12)
    selectedModel,      \* SettingsController.getSettings().selectedModel
    handlersSet,        \* UIController.setupEventHandlers was called (line 117)
    inputsDisabled,     \* message-input / send-button disabled (lines 287-288)
    statusShown,        \* UIController.showStatus / clearStatus (lines 286, 325)
    stack,              \* active async frames, innermost last
    ret,                \* how the frame that just ended left: none/return/throw
    messages,           \* message list of the latest model generation request
    backendLog,         \* ToolsService invocations since the last init
    toolLog,            \* processToolCall invocations since the last init
    ui,                 \* renderer messages of the current send
    sendReplies,        \* model replies received in the current send
    genRequests,        \* model generation requests issued in the current send
    resumes,            \* continuations started in the current send
    sendNo,             \* number of sendMessage invocations with input so far
    epoch,              \* number of clearChat invocations since the last init
    sendDisturbed,      \* a request failed or clearChat ran during this send
    lastThinkingContent, \* let lastThinkingContent (line 14)
    lastAnswerContent,  \* let lastAnswerContent (line 15)
    segmentation,       \* calls of the two segmenters explored on their own:
                        \* the stream and the latest two calls
    extraction,         \* a call of extractToolCall explored on its own: its
                        \* argument and its result
    events              \* environment moves of the run that are counted against
                        \* MaxEvents: sends with input, tool-call replies of the
                        \* model, failed requests, clearChat and repeated init

vars == <<chatHistory, executedToolCalls, hasResumed, settings, selectedModel,
          handlersSet, inputsDisabled, stack, ret, messages, backendLog, toolLog,
          ui, sendReplies, genRequests, resumes, sendNo, epoch, sendDisturbed,
          lastThinkingContent, lastAnswerContent, statusShown, extraction, segmentation,
          events>>

\* ------------------------------------------------------------------ bounds
MaxEvents == 4
\* pieces of a text given to extractToolCall
MaxSegments == 3
MaxWords == 3

\* ------------------------------------------------------- program constants
DefaultChunk == 1122
ContextWindow == 10

\* ------------------------------------------------------------- JS objects
\* A JS value of a tool call argument: a number or a string.
NumV(n) == [t |-> "num", n |-> n, s |-> ""]
StrV(s) == [t |-> "str", n |-> 0, s |-> s]
Undefined == [t |-> "undefined", n |-> 0, s |-> ""]

\* A member of the arguments object: key and value, in insertion order.
Member(k, v) == [k |-> k, v |-> v]

\* A ToolCall object as JSON.parse builds it: `top` is the insertion order of
\* its own keys, `arguments` the members of call.arguments in insertion order.
ToolCall(top, tool, args) ==
    [top |-> top, tool |-> tool, arguments |-> args]

\* call.skipContinue
SkipContinue(call) == \E i \in 1..Len(call.top) : call.top[i] = "skipContinue"

\* call.arguments[k]
Arg(call, k) ==
    IF \E i \in 1..Len(call.arguments) : call.arguments[i].k = k
    THEN call.arguments[CHOOSE i \in 1..Len(call.arguments) :
                            call.arguments[i].k = k].v
    ELSE Undefined

RECURSIVE JoinComma(_)
JoinComma(parts) ==
    IF parts = <<>> THEN ""
    ELSE IF Len(parts) = 1 THEN parts[1]
    ELSE parts[1] \o "," \o JoinComma(Tail(parts))

Quote(s) == "\"" \o s \o "\""

JsonValue(v) == IF v.t = "num" THEN ToString(v.n) ELSE Quote(v.s)

JsonObject(members) ==
    "{" \o JoinComma([i \in 1..Len(members) |->
            Quote(members[i].k) \o ":" \o JsonValue(members[i].v)]) \o "}"

JsonTopMember(call, key) ==
    IF key = "tool" THEN Quote("tool") \o ":" \o Quote(call.tool)
    ELSE IF key = "arguments"
         THEN Quote("arguments") \o ":" \o JsonObject(call.arguments)
    ELSE Quote(key) \o ":true"

\* JSON.stringify(call): members in insertion order, no whitespace.
JSONStringify(call) ==
    "{" \o JoinComma([i \in 1..Len(call.top) |->
            JsonTopMember(call, call.top[i])]) \o "}"

\* const callKey = JSON.stringify(call)
CallKey(call) == JSONStringify(call)

\* Mutant of IsDuplicate: the membership test is lost.
IsDuplicateNever(executed, call) == FALSE

\* const isDuplicate = executedToolCalls.has(callKey)
IsDuplicate(executed, call) == CallKey(call) \in executed

\* ------------------------------------------------------------------ Turns
\* A text value: a base text and the number of enhanceWithCoT wrappings
\* applied to it.  '' is EmptyText.
Text(ref, n) == [ref |-> ref, n |-> n]
EmptyText == Text("", 0)

\* enhanceWithCoT(message): the message followed by the step-by-step prompt.
enhanceWithCoT(message) == Text(message.ref, message.n + 1)

\* A Turn { role, content }.  The content is kept structured:
\*   kind  what produced the text, ref  the text it was produced from,
\*   n     a number in the text,   more  the trailing '...' of a chunk.
Turn(role, kind, ref, n, more) ==
    [role |-> role, content |-> [kind |-> kind, ref |-> ref, n |-> n, more |-> more]]

SystemTurn == Turn("system", "instructions", "tools", 0, FALSE)
UserTurn(text) == Turn("user", "text", text.ref, text.n, FALSE)
\* { role: 'assistant', content: fullReply }
ReplyTurn(raw) == Turn("assistant", "reply", raw, 0, FALSE)
SearchTurn(query, count) == Turn("assistant", "search", query, count, FALSE)
FallbackTurn(query) == Turn("assistant", "fallback", query, 0, FALSE)
ChunkTurn(url, offset, hasMore) == Turn("assistant", "chunk", url, offset, hasMore)
InstantTurn(query) == Turn("assistant", "instant", query, 0, FALSE)

\* `${value}` inside a template literal
TemplateText(v) ==
    IF v.t = "str" THEN v.s ELSE IF v.t = "num" THEN ToString(v.n) ELSE "undefined"

\* chatHistory.slice(-count)
SliceLast(h, count) ==
    IF Len(h) <= count THEN h ELSE SubSeq(h, Len(h) - count + 1, Len(h))

\* [systemMsg, ...chatHistory.slice(-10)]
RequestMessages(systemMsg, h) == <<systemMsg>> \o SliceLast(h, ContextWindow)

\* chatHistory.filter(m => m.role === 'user').pop()?.content || ''
LastUserMsg(h) ==
    LET idx == {i \in 1..Len(h) : h[i].role = "user"}
    IN  IF idx = {} THEN EmptyText
        ELSE LET turn == h[CHOOSE i \in idx : \A j \in idx : j <= i]
             IN  Text(turn.content.ref, turn.content.n)

\* ---------------------------------------------------------------- strings
\* A text that is looked into is a sequence of characters or tokens;
\* whitespace is a token of its own.
Whitespace == {" ", "\n"}

RECURSIVE TrimStart(_)
TrimStart(s) ==
    IF s # <<>> /\ Head(s) \in Whitespace THEN TrimStart(Tail(s)) ELSE s

RECURSIVE TrimEnd(_)
TrimEnd(s) ==
    IF s # <<>> /\ s[Len(s)] \in Whitespace
    THEN TrimEnd(SubSeq(s, 1, Len(s) - 1))
    ELSE s

\* Mutant of Trim: the text is not trimmed.
TrimNothing(s) == s

\* String.prototype.trim
Trim(s) == TrimEnd(TrimStart(s))

LowerOf(c) ==
    CASE c = "Y" -> "y"
      [] c = "E" -> "e"
      [] c = "S" -> "s"
      [] c = "N" -> "n"
      [] c = "O" -> "o"
      [] OTHER -> c

\* String.prototype.toLowerCase
ToLowerCase(s) == [i \in 1..Len(s) |-> LowerOf(s[i])]

\* String.prototype.startsWith
StartsWith(s, prefix) ==
    Len(s) >= Len(prefix) /\ SubSeq(s, 1, Len(prefix)) = prefix

\* ---------------------------------------------------------------- replies
\* What a model generation returns: raw text.  A reply of kind "call" is the
\* JSON text of one tool call; a reply of kind "text" holds no JSON object.
NoCall == ToolCall(<<>>, "", <<>>)
\* no reply is being streamed
NoReply == [kind |-> "none", call |-> NoCall, raw |-> ""]
CallReply(call) == [kind |-> "call", call |-> call, raw |-> JSONStringify(call)]
TextReply(raw) == [kind |-> "text", call |-> NoCall, raw |-> raw]

\* const toolCall = extractToolCall(fullReply) for a reply of the model
\* (lines 355-356): the parsed object, or null (HasToolCall false).
\* extractToolCall itself is modelled on token texts further down.
HasToolCall(reply) == reply.kind = "call"
ToolCallOf(reply) == reply.call

\* The calls the model emits in this model, as their JSON.parse results.
Q1 == "q1"
U1 == "u1"
U2 == "u2"
UnknownToolCall == ToolCall(<<"tool", "arguments">>, "calculator",
                            <<Member("query", StrV(Q1))>>)

\* A web_search call, a read_url call, the same read_url call with its
\* argument keys in another order, an instant_answer call and a call of a
\* tool that does not exist.
ModelCalls ==
    {ToolCall(<<"tool", "arguments">>, "web_search", <<Member("query", StrV(Q1))>>),
     ToolCall(<<"tool", "arguments">>, "read_url",
              <<Member("url", StrV(U1)), Member("start", NumV(0)),
                Member("length", NumV(DefaultChunk))>>),
     ToolCall(<<"tool", "arguments">>, "read_url",
              <<Member("start", NumV(0)), Member("length", NumV(DefaultChunk)),
                Member("url", StrV(U1))>>),
     ToolCall(<<"tool", "arguments">>, "instant_answer",
              <<Member("query", StrV(Q1))>>),
     UnknownToolCall}

\* { tool: 'read_url', arguments: { url: item.url, start: 0, length: 1122 },
\*   skipContinue: true }
PrefetchCall(url) == ToolCall(<<"tool", "arguments", "skipContinue">>, "read_url",
                        <<Member("url", StrV(url)), Member("start", NumV(0)),
                          Member("length", NumV(DefaultChunk))>>)

\* A model text is a sequence of words joined by single spaces; the markers
\* 'Step N:' and 'Answer:' are words of their own.
StepMarker == "Step 1:"
AnswerMarker == "Answer:"
\* a word that begins with 'Step' and is no marker
StepLike == "Stepwise"

RECURSIVE JoinSpace(_)
JoinSpace(words) ==
    IF words = <<>> THEN ""
    ELSE IF Len(words) = 1 THEN words[1]
    ELSE words[1] \o " " \o JoinSpace(Tail(words))

\* The tool-free text the model gives: reasoning steps, then the answer.
FinalAnswerWords == <<StepMarker, "think", AnswerMarker, "done">>
ModelTexts == {JoinSpace(FinalAnswerWords)}
TextWords == {FinalAnswerWords}

\* The words of a text (a text that is not one of the model's texts, such as
\* the JSON of a tool call, holds no marker and is one word).
Words(text) ==
    IF \E w \in TextWords : JoinSpace(w) = text
    THEN CHOOSE w \in TextWords : JoinSpace(w) = text
    ELSE <<text>>

\* The index of the first occurrence of a word after index `from`, or 0.
FirstAfter(words, word, from) ==
    LET idx == {i \in (from + 1)..Len(words) : words[i] = word}
    IN  IF idx = {} THEN 0 ELSE CHOOSE i \in idx : \A j \in idx : i <= j

\* processCoTResponse(response), lines 170-208, reading lastAnswerContent:
\*   thinkingMatch = /(Step\s*\d+:.*?)(?=Answer:|$)/s, answerMatch = /Answer:(.*)$/s
processCoTResponse(w, lastAnswer) ==
    LET response == JoinSpace(w)
        step == FirstAfter(w, StepMarker, 0)
        answer == FirstAfter(w, AnswerMarker, 0)
        stop == IF FirstAfter(w, AnswerMarker, step) = 0 THEN Len(w) + 1
                ELSE FirstAfter(w, AnswerMarker, step)
    IN  IF step > 0 /\ answer > 0
        THEN [thinking |-> JoinSpace(SubSeq(w, step, stop - 1)),
              answer |-> JoinSpace(SubSeq(w, answer + 1, Len(w))),
              hasStructuredResponse |-> TRUE, partial |-> FALSE, stage |-> ""]
        ELSE IF w # <<>> /\ w[1] \in {StepMarker, StepLike} /\ answer = 0
        THEN [thinking |-> response, answer |-> lastAnswer,
              hasStructuredResponse |-> TRUE, partial |-> TRUE, stage |-> "thinking"]
        ELSE [thinking |-> "", answer |-> response,
              hasStructuredResponse |-> FALSE, partial |-> FALSE, stage |-> ""]

\* Mutant of CoTCache: a partial result stores its reasoning as last answer.
CoTCacheAnswerFromThinking(w, lastThinking, lastAnswer) ==
    LET p == processCoTResponse(w, lastAnswer)
    IN  IF p.hasStructuredResponse
        THEN [thinking |-> p.thinking,
              answer |-> IF p.partial THEN p.thinking ELSE p.answer]
        ELSE [thinking |-> lastThinking, answer |-> lastAnswer]

\* What processCoTResponse leaves in lastThinkingContent / lastAnswerContent
\* (lines 180-181, 191).
CoTCache(w, lastThinking, lastAnswer) ==
    LET p == processCoTResponse(w, lastAnswer)
    IN  IF p.hasStructuredResponse
        THEN [thinking |-> p.thinking, answer |-> p.answer]
        ELSE [thinking |-> lastThinking, answer |-> lastAnswer]

\* processPartialCoTResponse(fullText), lines 215-249: the same two regular
\* expressions, no cache.
processPartialCoTResponse(w) ==
    LET step == FirstAfter(w, StepMarker, 0)
        answer == FirstAfter(w, AnswerMarker, 0)
        stop == IF FirstAfter(w, AnswerMarker, step) = 0 THEN Len(w) + 1
                ELSE FirstAfter(w, AnswerMarker, step)
    IN  IF step > 0 /\ answer = 0
        THEN [thinking |-> JoinSpace(w), answer |-> "",
              hasStructuredResponse |-> TRUE, partial |-> TRUE, stage |-> "thinking"]
        ELSE IF step > 0 /\ answer > 0
        THEN [thinking |-> JoinSpace(SubSeq(w, step, stop - 1)),
              answer |-> JoinSpace(SubSeq(w, answer + 1, Len(w))),
              hasStructuredResponse |-> TRUE, partial |-> FALSE, stage |-> ""]
        ELSE [thinking |-> "", answer |-> JoinSpace(w),
              hasStructuredResponse |-> FALSE, partial |-> FALSE, stage |-> ""]

\* No call of a segmenter is being explored.
NoSegmentation == [stream |-> <<>>, calls |-> <<>>]

\* formatResponseForDisplay(processed), lines 256-274
formatResponseForDisplay(s, processed) ==
    IF ~s.enableCoT \/ ~processed.hasStructuredResponse THEN processed.answer
    ELSE IF s.showThinking
         THEN IF processed.partial /\ processed.stage = "thinking"
              THEN "Thinking: " \o processed.thinking
              ELSE IF processed.partial THEN processed.thinking
              ELSE "Thinking: " \o processed.thinking \o "\n\nAnswer: "
                       \o processed.answer
         ELSE IF processed.answer # "" THEN processed.answer ELSE "Thinking..."

\* The text shown for a tool-free reply (lines 369-371, 433-443, 499-515).
DisplayText(s, fullReply, lastAnswer) ==
    IF s.enableCoT
    THEN formatResponseForDisplay(s, processCoTResponse(Words(fullReply), lastAnswer))
    ELSE fullReply

\* Mutant of FinalContent: the displayed text is stored in the history.
FinalContentDisplayed(s, fullReply) == DisplayText(s, fullReply, "")

\* The content of the final assistant Turn: fullReply / textResponse
\* (lines 372, 446, 449, 508, 514).
FinalContent(s, fullReply) == fullReply

\* What the backends return.
\* a page of three default chunks and an empty page
U3 == "u3"
U0 == "u0"
ScenarioPage == 3000
\* The length of the text readUrl returns for a URL: the page of U1 spans
\* two default chunks, the page of U2 one.
PageLength(url) ==
    CASE url = U1 -> 2000
      [] url = U3 -> ScenarioPage
      [] url = U0 -> 0
      [] OTHER -> 1000
Models == {"gpt", "gemini"}

\* -------------------------------------------------------- extractToolCall
\* The text given to extractToolCall is a sequence of tokens, its characters
\* are their concatenation.
\* three backticks followed by json, by JSON, and three backticks alone
Fence == "[fence]json"
FenceUpper == "[fence]JSON"
FenceEnd == "[fence]"
ToolSearch == "\"tool\":\"web_search\""
ToolRead == "\"tool\":\"read_url\""
ToolEmpty == "\"tool\":\"\""
ArgumentsKey == "\"arguments\":"
ArgumentsNull == "\"arguments\":null"
QueryMember == "\"query\":\"q1\""
\* a member whose string value holds a closing brace
BraceInString == "\"note\":\"}\""
Word == "see"
NullLiteral == "null"

\* JSON values: a string, null or an object (its members in text order).
StrJ(str) == [t |-> "str", s |-> str, members |-> <<>>]
NullJ == [t |-> "null", s |-> "", members |-> <<>>]
UndefinedJ == [t |-> "undefined", s |-> "", members |-> <<>>]
ObjJ(members) == [t |-> "obj", s |-> "", members |-> members]

\* The member a token that is a whole member stands for.
AtomicMembers == {ToolSearch, ToolRead, ToolEmpty, ArgumentsNull, QueryMember,
                  BraceInString}
AtomicMember(token) ==
    CASE token = ToolSearch -> Member("tool", StrJ("web_search"))
      [] token = ToolRead -> Member("tool", StrJ("read_url"))
      [] token = ToolEmpty -> Member("tool", StrJ(""))
      [] token = ArgumentsNull -> Member("arguments", NullJ)
      [] token = QueryMember -> Member("query", StrJ("q1"))
      [] token = BraceInString -> Member("note", StrJ("}"))

\* JSON.parse, by recursive descent: an object is { member, member ... },
\* whitespace is allowed between tokens, a trailing comma is an error.
ParseFail == [ok |-> FALSE, members |-> <<>>, rest |-> <<>>]
MemberFail == [ok |-> FALSE, member |-> Member("", NullJ), rest |-> <<>>]

RECURSIVE ParseObject(_), ParseMembers(_, _), ParseMember(_)
ParseObject(toks) ==
    IF toks = <<>> \/ Head(toks) # "{" THEN ParseFail
    ELSE LET inner == TrimStart(Tail(toks))
         IN  IF inner # <<>> /\ Head(inner) = "}"
             THEN [ok |-> TRUE, members |-> <<>>, rest |-> Tail(inner)]
             ELSE ParseMembers(inner, <<>>)

ParseMembers(toks, acc) ==
    LET m == ParseMember(toks)
        after == TrimStart(m.rest)
    IN  IF ~m.ok \/ after = <<>> THEN ParseFail
        ELSE IF Head(after) = "}"
             THEN [ok |-> TRUE, members |-> Append(acc, m.member),
                   rest |-> Tail(after)]
        ELSE IF Head(after) = ","
             THEN ParseMembers(TrimStart(Tail(after)), Append(acc, m.member))
        ELSE ParseFail

ParseMember(toks) ==
    IF toks = <<>> THEN MemberFail
    ELSE IF Head(toks) \in AtomicMembers
         THEN [ok |-> TRUE, member |-> AtomicMember(Head(toks)), rest |-> Tail(toks)]
    ELSE IF Head(toks) = ArgumentsKey
         THEN LET o == ParseObject(TrimStart(Tail(toks)))
              IN  IF o.ok
                  THEN [ok |-> TRUE, member |-> Member("arguments", ObjJ(o.members)),
                        rest |-> o.rest]
                  ELSE MemberFail
    ELSE MemberFail

\* JSON.parse(text): an object, null, or a SyntaxError.
JSONParse(toks) ==
    LET t == Trim(toks)
        o == ParseObject(t)
    IN  IF t = <<NullLiteral>> THEN [kind |-> "null", members |-> <<>>]
        ELSE IF o.ok /\ o.rest = <<>> THEN [kind |-> "object", members |-> o.members]
        ELSE [kind |-> "error", members |-> <<>>]

\* obj[key]: with a repeated key the last member wins.
Get(members, key) ==
    LET idx == {i \in 1..Len(members) : members[i].k = key}
    IN  IF idx = {} THEN UndefinedJ
        ELSE members[CHOOSE i \in idx : \A j \in idx : j <= i].v

Truthy(v) == v.t = "obj" \/ (v.t = "str" /\ v.s # "")

\* obj.tool && obj.arguments inside the try (lines 35-41, 53-59): a
\* SyntaxError of JSON.parse and the TypeError of null.tool are caught.
IsToolCallObject(parsed) ==
    /\ parsed.kind = "object"
    /\ Truthy(Get(parsed.members, "tool"))
    /\ Truthy(Get(parsed.members, "arguments"))

\* What extractToolCall returns: the parsed object, or null.
NoResult == [found |-> FALSE, members |-> <<>>]
Found(members) == [found |-> TRUE, members |-> members]

\* The least index >= from of a token of the set, or 0.
RECURSIVE IndexFrom(_, _, _)
IndexFrom(text, tokens, from) ==
    IF from > Len(text) THEN 0
    ELSE IF text[from] \in tokens THEN from
    ELSE IndexFrom(text, tokens, from + 1)

\* Mutant of FenceMatch: the fenced-block strategy never matches.
FenceMatchNever(text) == [matched |-> FALSE, group |-> <<>>]

\* text.match(fenceRegex), lines 31-32: from the first fence tagged json (in
\* any case) to the next three backticks, which may be those of another
\* tagged fence; group 1 is what stands between, without the whitespace
\* around it.
FenceMatch(text) ==
    LET open == IndexFrom(text, {Fence, FenceUpper}, 1)
        close == IF open = 0 THEN 0
                 ELSE IndexFrom(text, {Fence, FenceUpper, FenceEnd}, open + 1)
    IN  IF close = 0 THEN [matched |-> FALSE, group |-> <<>>]
        ELSE [matched |-> TRUE, group |-> Trim(SubSeq(text, open + 1, close - 1))]

\* The braces the scan counts in a token: it does not know about strings.
BraceDelta(token) ==
    IF token = "{" THEN 1
    ELSE IF token \in {"}", BraceInString} THEN -1
    ELSE 0

\* The inner loop, lines 47-50: the least j at which depth is back at zero,
\* or 0 when the text ends before.
RECURSIVE DepthZeroAt(_, _, _)
DepthZeroAt(text, j, depth) ==
    IF j > Len(text) THEN 0
    ELSE LET d == depth + BraceDelta(text[j])
         IN  IF d = 0 THEN j ELSE DepthZeroAt(text, j + 1, d)

\* JSON.parse(text.slice(i, j + 1)), lines 51-53: a candidate that ends at the
\* brace inside a string is cut inside that string.
CandidateParse(text, i, j) ==
    IF text[j] = "}" THEN JSONParse(SubSeq(text, i, j))
    ELSE [kind |-> "error", members |-> <<>>]

\* Mutant of ScanFrom: the scan gives up at the first candidate that is no
\* tool call.
RECURSIVE ScanFromGivesUp(_, _)
ScanFromGivesUp(text, i) ==
    IF i > Len(text) THEN NoResult
    ELSE IF text[i] = "{"
         THEN LET j == DepthZeroAt(text, i, 0)
                  parsed == IF j = 0 THEN [kind |-> "error", members |-> <<>>]
                            ELSE CandidateParse(text, i, j)
              IN  IF IsToolCallObject(parsed) THEN Found(parsed.members)
                  ELSE NoResult
    ELSE ScanFromGivesUp(text, i + 1)

\* The outer loop from index i on, lines 44-64, and return null (line 69).
RECURSIVE ScanFrom(_, _)
ScanFrom(text, i) ==
    IF i > Len(text) THEN NoResult
    ELSE IF text[i] = "{"
         THEN LET j == DepthZeroAt(text, i, 0)
                  parsed == IF j = 0 THEN [kind |-> "error", members |-> <<>>]
                            ELSE CandidateParse(text, i, j)
              IN  IF IsToolCallObject(parsed) THEN Found(parsed.members)
                  ELSE ScanFrom(text, i + 1)
    ELSE ScanFrom(text, i + 1)

\* extractToolCall(text), lines 29-70
extractToolCall(text) ==
    LET fenceMatch == FenceMatch(text)
        obj == JSONParse(fenceMatch.group)
    IN  IF fenceMatch.matched /\ IsToolCallObject(obj)
        THEN Found(obj.members)
        ELSE ScanFrom(text, 1)

\* No call of extractToolCall is being explored.
NoExtraction == [text |-> <<>>, called |-> FALSE, result |-> NoResult]

\* ----------------------------------------------------------------- frames
\* `results` is the array webSearch resolved with, `items` the part of it
\* the for-of loop has yet to visit.
\* `decisions` records the outcomes of the pagination decisions of a
\* read_url call so far: "yes", "no" or "error"; `answers` what each
\* decision request resolved with (or "failed").
\* `streaming` is the branch of settings.streaming the pending generation
\* request was issued in (lines 344, 384); `reply` the reply whose stream has
\* begun and `chunks` the number of onChunk calls it has made.
\* `file` is the copy of the controller the frame runs: js/chat-controller.js
\* or, for a read_url call of PageSpec, unnamed/part_000.
Frame(fn, pc) ==
    [fn |-> fn, pc |-> pc, call |-> NoCall, isDuplicate |-> FALSE,
     items |-> <<>>, offset |-> 0, totalLength |-> 0,
     systemMsg |-> Turn("", "", "", 0, FALSE),
     decisions |-> <<>>, answers |-> <<>>, results |-> <<>>,
     streaming |-> FALSE, reply |-> NoReply, chunks |-> 0,
     file |-> "chat-controller.js"]

Top == stack[Len(stack)]
Running(fn, pc) == stack # <<>> /\ Top.fn = fn /\ Top.pc = pc
Pop == SubSeq(stack, 1, Len(stack) - 1)
ReplaceTop(f) == [stack EXCEPT ![Len(stack)] = f]
Idle == stack = <<>>

\* The innermost frame waits for a network request: other handlers may run.
Suspended ==
    /\ stack # <<>>
    /\ Top.pc \in {"oa_await", "g_await", "g_tokens_await", "ws_await", "ru_await",
                   "ru_decide_await", "ia_await"}

\* selectedModel.startsWith('gpt')
IsGpt(model) == model = "gpt"

\* ------------------------------------------------------------ entering
\* Mutant of EnterOpenAI: the user Turn is put in front of the history.
EnterOpenAIUnshifts(h, userInput, s) ==
    LET h1 == <<UserTurn(userInput)>> \o h
    IN  [history |-> h1,
         frame |-> [Frame("handleOpenAIMessage", "oa_await")
                        EXCEPT !.systemMsg = h1[1], !.streaming = s.streaming],
         messages |-> RequestMessages(h1[1], h1),
         ui |-> <<>>]

\* handleOpenAIMessage(model, userInput) up to its first await (lines 336-350)
\* under the settings s: the new history, the suspended frame, the message
\* list of the request and the renderer calls made.
EnterOpenAI(h, userInput, s) ==
    LET h1 == Append(h, UserTurn(userInput))
    IN  [history |-> h1,
         frame |-> [Frame("handleOpenAIMessage", "oa_await")
                        EXCEPT !.systemMsg = h1[1], !.streaming = s.streaming],
         messages |-> RequestMessages(h1[1], h1),
         ui |-> <<>>]

\* handleGeminiMessage(model, message) up to its first await
\* (lines 380-401 streaming, 468-475 not streaming).  Streaming, the empty
\* message element is created (line 386) and, with enableCoT, the thinking
\* indicator is written into it (line 393).
EnterGemini(h, message, s) ==
    LET h1 == Append(h, UserTurn(message))
    IN  [history |-> h1,
         frame |-> [Frame("handleGeminiMessage", "g_await")
                        EXCEPT !.systemMsg = h1[1], !.streaming = s.streaming],
         messages |-> RequestMessages(h1[1], h1),
         ui |-> IF ~s.streaming THEN <<>>
                ELSE IF s.enableCoT THEN <<"empty", "Thinking...">>
                ELSE <<"empty">>]

\* sendMessage's try block up to the first await (lines 305-317).
EnterSend(model, h, enhancedMessage, s) ==
    IF IsGpt(model)
    THEN EnterOpenAI(Append(h, UserTurn(enhancedMessage)), enhancedMessage, s)
    ELSE EnterGemini(IF Len(h) = 0 THEN Append(h, UserTurn(EmptyText)) ELSE h,
                     enhancedMessage, s)

\* The continuation of processToolCall's finally block up to the first await
\* (lines 638-649).
EnterContinuation(model, h, s) ==
    IF IsGpt(model)
    THEN EnterOpenAI(h, EmptyText, s)
    ELSE LET lastUserMsg == LastUserMsg(h)
             nextMsg == IF s.enableCoT THEN enhanceWithCoT(lastUserMsg)
                        ELSE lastUserMsg
         IN  EnterGemini(Append(h, UserTurn(nextMsg)), nextMsg, s)

\* Mutant of ShouldResume: the skipContinue test is lost.
ShouldResumeIgnoresSkip(call, isDuplicate, resumed) ==
    ~isDuplicate /\ ~resumed

\* Mutant of ShouldResume: the hasResumed test is lost.
ShouldResumeEveryCall(call, isDuplicate, resumed) ==
    ~SkipContinue(call) /\ ~isDuplicate

\* if (!call.skipContinue && !isDuplicate && !hasResumed)
ShouldResume(call, isDuplicate, resumed) ==
    ~SkipContinue(call) /\ ~isDuplicate /\ ~resumed

\* A settings object given to init or updateSettings: any of the three keys
\* may be absent.
SettingKeys == {"streaming", "enableCoT", "showThinking"}
SettingsObjects == UNION {[keys -> BOOLEAN] : keys \in SUBSET SettingKeys}

\* { ...settings, ...newSettings }
MergeSettings(s, newSettings) ==
    [k \in SettingKeys |-> IF k \in DOMAIN newSettings THEN newSettings[k] ELSE s[k]]

\* ------------------------------------------------------------------- Init
\* The module's state after construction, before App.init calls init().
Init ==
    /\ chatHistory = <<>>
    /\ executedToolCalls = {}
    /\ hasResumed = FALSE
    /\ settings = [streaming |-> FALSE, enableCoT |-> FALSE, showThinking |-> TRUE]
    /\ selectedModel = "gpt"
    /\ handlersSet = FALSE
    /\ inputsDisabled = FALSE
    /\ statusShown = FALSE
    /\ stack = <<>>
    /\ ret = "none"
    /\ messages = <<>>
    /\ backendLog = <<>>
    /\ toolLog = <<>>
    /\ ui = <<>>
    /\ sendReplies = <<>>
    /\ genRequests = 0
    /\ resumes = 0
    /\ sendNo = 0
    /\ epoch = 0
    /\ sendDisturbed = FALSE
    /\ lastThinkingContent = ""
    /\ lastAnswerContent = ""
    /\ extraction = NoExtraction
    /\ segmentation = NoSegmentation
    /\ events = 0

\* ---------------------------------------------------------------- actions
\* init(initialSettings), lines 86-118, called by App.init after
\* SettingsController.init chose the model.
InitChat ==
    /\ Idle
    /\ handlersSet => events < MaxEvents
    /\ \E merged \in {MergeSettings(settings, initialSettings) :
                          initialSettings \in SettingsObjects},
          model \in Models :
         \* a repeated init is given the settings in force, and the selected
         \* model stays the same over a run
         /\ handlersSet => /\ merged = settings
                           /\ model = selectedModel
         /\ settings' = merged
         /\ selectedModel' = model
    /\ executedToolCalls' = {}
    /\ chatHistory' = <<SystemTurn>>
    /\ handlersSet' = TRUE
    /\ events' = IF handlersSet THEN events + 1 ELSE events
    /\ backendLog' = <<>>
    /\ toolLog' = <<>>
    /\ epoch' = 0
    /\ UNCHANGED <<hasResumed, inputsDisabled, stack, ret, messages, ui,
                   sendReplies, genRequests, resumes, sendNo, sendDisturbed,
                   lastThinkingContent, lastAnswerContent, statusShown, extraction,
                   segmentation>>

\* updateSettings(newSettings), lines 124-127: a public function, callable
\* whenever no task of the controller runs.  A call that changes nothing is
\* not counted.
UpdateSettings ==
    /\ Idle \/ Suspended
    /\ \E merged \in {MergeSettings(settings, newSettings) :
                          newSettings \in SettingsObjects} :
         /\ merged # settings => events < MaxEvents
         /\ settings' = merged
         /\ events' = IF merged # settings THEN events + 1 ELSE events
    /\ UNCHANGED <<chatHistory, executedToolCalls, hasResumed, selectedModel,
                   handlersSet, inputsDisabled, stack, ret, messages, backendLog,
                   ui, sendReplies, genRequests, resumes, toolLog, sendNo, epoch,
                   sendDisturbed,
                   lastThinkingContent, lastAnswerContent, statusShown, extraction,
                   segmentation>>

\* clearChat(), lines 132-136.  The clear button stays enabled during a send.
ClearChat ==
    /\ handlersSet
    /\ Idle \/ Suspended
    /\ events < MaxEvents
    /\ chatHistory' = <<>>
    /\ events' = events + 1
    /\ epoch' = epoch + 1
    /\ sendDisturbed' = (sendDisturbed \/ ~Idle)
    /\ UNCHANGED <<executedToolCalls, hasResumed, settings, selectedModel,
                   handlersSet, inputsDisabled, stack, ret, messages, backendLog,
                   ui, sendReplies, genRequests, resumes, toolLog, sendNo,
                   lastThinkingContent, lastAnswerContent, statusShown, extraction,
                   segmentation>>

\* sendMessage() with empty input, lines 279-283.
SendEmpty ==
    /\ handlersSet /\ Idle
    /\ hasResumed' = FALSE
    /\ UNCHANGED <<chatHistory, executedToolCalls, settings, selectedModel,
                   handlersSet, inputsDisabled, stack, ret, messages, backendLog,
                   ui, sendReplies, genRequests, resumes, events, toolLog,
                   sendNo, epoch, sendDisturbed,
                   lastThinkingContent, lastAnswerContent, statusShown, extraction,
                   segmentation>>

\* sendMessage() with input, lines 279-317, up to the first model request.
SendMessage ==
    /\ handlersSet /\ Idle /\ ~inputsDisabled
    /\ events < MaxEvents
    \* the text in the input box
    /\ \E message \in {"m1"} :
         LET text == Text(message, 0)
             enhancedMessage == IF settings.enableCoT THEN enhanceWithCoT(text) ELSE text
             e == EnterSend(selectedModel, chatHistory, enhancedMessage, settings)
         IN  /\ chatHistory' = e.history
             /\ stack' = <<Frame("sendMessage", "s_child"), e.frame>>
             /\ messages' = e.messages
             /\ ui' = <<"user">> \o e.ui
    /\ hasResumed' = FALSE
    /\ inputsDisabled' = TRUE
    /\ statusShown' = TRUE
    /\ sendReplies' = <<>>
    /\ genRequests' = 1
    /\ resumes' = 0
    /\ events' = events + 1
    /\ ret' = "none"
    /\ sendNo' = sendNo + 1
    /\ sendDisturbed' = FALSE
    /\ lastThinkingContent' = ""
    /\ lastAnswerContent' = ""
    /\ UNCHANGED <<executedToolCalls, settings, selectedModel, handlersSet,
                   backendLog, toolLog, epoch, extraction,
                   segmentation>>

\* Mutant of SendEnds: the inputs are re-enabled in the catch block only.
SendEndsEnablesOnErrorOnly ==
    /\ Running("sendMessage", "s_child")
    /\ ret # "none"
    /\ ui' = IF ret = "throw" THEN Append(ui, "error") ELSE ui
    /\ inputsDisabled' = (ret # "throw")
    /\ statusShown' = FALSE
    /\ stack' = Pop
    /\ ret' = "none"
    /\ UNCHANGED <<chatHistory, executedToolCalls, hasResumed, settings,
                   selectedModel, handlersSet, messages, backendLog, sendReplies,
                   genRequests, resumes, events, toolLog, sendNo, epoch,
                   sendDisturbed,
                   lastThinkingContent, lastAnswerContent, extraction,
                   segmentation>>

\* sendMessage's catch and finally, lines 318-328.
SendEnds ==
    /\ Running("sendMessage", "s_child")
    /\ ret # "none"
    /\ ui' = IF ret = "throw" THEN Append(ui, "error") ELSE ui
    /\ inputsDisabled' = FALSE
    /\ statusShown' = FALSE
    /\ stack' = Pop
    /\ ret' = "none"
    /\ UNCHANGED <<chatHistory, executedToolCalls, hasResumed, settings,
                   selectedModel, handlersSet, messages, backendLog, sendReplies,
                   genRequests, resumes, events, toolLog, sendNo, epoch,
                   sendDisturbed,
                   lastThinkingContent, lastAnswerContent, extraction,
                   segmentation>>

\* The replies the model may give to a generation request.  The number of
\* tool-call replies of a run is capped, so that every send can end.
Replies ==
    {TextReply(t) : t \in ModelTexts} \cup
    (IF events < MaxEvents THEN {CallReply(c) : c \in ModelCalls} ELSE {})

\* The onChunk calls of a streamed reply, each with the text received so far
\* (its words): a tool-free text arrives in two chunks, the second of which
\* begins at the answer marker; the JSON of a call arrives in one.
Chunks(reply) ==
    LET w == Words(reply.raw)
        answer == FirstAfter(w, AnswerMarker, 0)
    IN  IF answer > 1 THEN <<SubSeq(w, 1, answer - 1), w>> ELSE <<w>>

\* The replies whose next onChunk call the pending request of the innermost
\* frame may make: the reply whose stream has begun, or any reply.
StreamReplies ==
    {reply \in (IF Top.chunks = 0 THEN Replies ELSE {Top.reply}) :
        Top.chunks < Len(Chunks(reply))}

\* The replies the pending request of the innermost frame may resolve with: a
\* streamed request resolves with the text of its last onChunk call.
PendingReplies ==
    IF Top.streaming
    THEN {reply \in {Top.reply} : Top.chunks > 0 /\ Top.chunks = Len(Chunks(reply))}
    ELSE Replies

\* A new processToolCall(call) frame, before its first statement.
CallFrame(call) == [Frame("processToolCall", "entry") EXCEPT !.call = call]

\* ---------------------------------------------------- handleOpenAIMessage
\* The request of the do-while loop resolves with a reply, lines 350-372.
OpenAIReply ==
    /\ Running("handleOpenAIMessage", "oa_await")
    /\ \E reply \in PendingReplies :
         /\ sendReplies' = Append(sendReplies, reply)
         /\ IF HasToolCall(reply)
            THEN /\ chatHistory' = Append(chatHistory, ReplyTurn(reply.raw))
                 /\ stack' = Append(ReplaceTop([Top EXCEPT !.pc = "oa_child"]),
                                    CallFrame(ToolCallOf(reply)))
                 /\ events' = IF Top.chunks = 0 THEN events + 1 ELSE events
                 /\ UNCHANGED <<ui, ret, lastThinkingContent, lastAnswerContent>>
            ELSE /\ chatHistory' = Append(chatHistory,
                                     ReplyTurn(FinalContent(settings, reply.raw)))
                 /\ stack' = Pop
                 /\ ret' = "return"
                 /\ ui' = Append(ui, DisplayText(settings, reply.raw, lastAnswerContent))
                 /\ LET c == IF settings.enableCoT
                             THEN CoTCache(Words(reply.raw), lastThinkingContent,
                                           lastAnswerContent)
                             ELSE [thinking |-> lastThinkingContent,
                                   answer |-> lastAnswerContent]
                    IN  /\ lastThinkingContent' = c.thinking
                        /\ lastAnswerContent' = c.answer
                 /\ UNCHANGED events
    /\ UNCHANGED <<executedToolCalls, hasResumed, settings, selectedModel,
                   handlersSet, inputsDisabled, messages, backendLog,
                   genRequests, resumes, toolLog, sendNo, epoch, sendDisturbed, statusShown, extraction,
                   segmentation>>

\* onChunk of the streamed request (lines 345-348): a new message element
\* is created and given the text received so far.
OpenAIChunk ==
    /\ Running("handleOpenAIMessage", "oa_await")
    /\ Top.streaming
    /\ \E reply \in StreamReplies :
         /\ ui' = ui \o <<"empty", JoinSpace(Chunks(reply)[Top.chunks + 1])>>
         /\ stack' = ReplaceTop([Top EXCEPT !.reply = reply, !.chunks = @ + 1])
         /\ events' = IF Top.chunks = 0 /\ HasToolCall(reply)
                       THEN events + 1 ELSE events
    /\ UNCHANGED <<chatHistory, executedToolCalls, hasResumed, settings,
                   selectedModel, handlersSet, inputsDisabled, ret, messages,
                   backendLog, sendReplies, genRequests, resumes, toolLog,
                   sendNo, epoch, sendDisturbed,
                   lastThinkingContent, lastAnswerContent, statusShown, extraction,
                   segmentation>>

\* Mutant of OpenAIError: the partial reply is pushed before the error is thrown.
OpenAIErrorKeepsPartialReply ==
    /\ Running("handleOpenAIMessage", "oa_await")
    /\ events < MaxEvents
    /\ events' = events + 1
    /\ stack' = Pop
    /\ ret' = "throw"
    /\ sendDisturbed' = TRUE
    /\ chatHistory' = Append(chatHistory, ReplyTurn(""))
    /\ UNCHANGED <<executedToolCalls, hasResumed, settings,
                   selectedModel, handlersSet, inputsDisabled, messages,
                   backendLog, ui, sendReplies, genRequests, resumes, toolLog,
                   sendNo, epoch,
                   lastThinkingContent, lastAnswerContent, statusShown, extraction,
                   segmentation>>

\* The request fails: res.error (line 351) or a rejected request.
OpenAIError ==
    /\ Running("handleOpenAIMessage", "oa_await")
    /\ events < MaxEvents
    /\ events' = events + 1
    /\ stack' = Pop
    /\ ret' = "throw"
    /\ sendDisturbed' = TRUE
    /\ UNCHANGED <<chatHistory, executedToolCalls, hasResumed, settings,
                   selectedModel, handlersSet, inputsDisabled, messages,
                   backendLog, ui, sendReplies, genRequests, resumes, toolLog,
                   sendNo, epoch,
                   lastThinkingContent, lastAnswerContent, statusShown, extraction,
                   segmentation>>

\* processToolCall returned: `continue`, the next request of the loop
\* (lines 360-363, 341-350).
OpenAIContinue ==
    /\ Running("handleOpenAIMessage", "oa_child")
    /\ ret = "return"
    /\ ret' = "none"
    /\ stack' = ReplaceTop([Top EXCEPT !.pc = "oa_await",
                                        !.streaming = settings.streaming,
                                        !.reply = NoReply, !.chunks = 0])
    /\ messages' = RequestMessages(Top.systemMsg, chatHistory)
    /\ genRequests' = genRequests + 1
    /\ UNCHANGED <<chatHistory, executedToolCalls, hasResumed, settings,
                   selectedModel, handlersSet, inputsDisabled, backendLog, ui,
                   sendReplies, resumes, events, toolLog, sendNo, epoch,
                   sendDisturbed,
                   lastThinkingContent, lastAnswerContent, statusShown, extraction,
                   segmentation>>

\* ---------------------------------------------------- handleGeminiMessage
\* The generation resolves with a reply (lines 401-456 streaming, 475-516 not).
GeminiReply ==
    /\ Running("handleGeminiMessage", "g_await")
    /\ \E reply \in PendingReplies :
         /\ sendReplies' = Append(sendReplies, reply)
         /\ IF HasToolCall(reply)
            THEN /\ stack' = Append(ReplaceTop([Top EXCEPT !.pc = "g_child"]),
                                    CallFrame(ToolCallOf(reply)))
                 /\ events' = IF Top.chunks = 0 THEN events + 1 ELSE events
                 /\ UNCHANGED <<chatHistory, ui, ret, lastThinkingContent,
                                lastAnswerContent>>
            ELSE /\ chatHistory' = Append(chatHistory,
                                     ReplyTurn(FinalContent(settings, reply.raw)))
                 \* streaming without enableCoT, the text was shown by
                 \* onChunk only (lines 444-449)
                 /\ ui' = IF Top.streaming /\ ~settings.enableCoT THEN ui
                          ELSE Append(ui, DisplayText(settings, reply.raw,
                                                      lastAnswerContent))
                 /\ LET c == IF settings.enableCoT
                             THEN CoTCache(Words(reply.raw), lastThinkingContent,
                                           lastAnswerContent)
                             ELSE [thinking |-> lastThinkingContent,
                                   answer |-> lastAnswerContent]
                    IN  /\ lastThinkingContent' = c.thinking
                        /\ lastAnswerContent' = c.answer
                 /\ IF Top.streaming
                    THEN /\ stack' = ReplaceTop([Top EXCEPT !.pc = "g_tokens_await"])
                         /\ UNCHANGED ret
                    ELSE /\ stack' = Pop
                         /\ ret' = "return"
                 /\ UNCHANGED events
    /\ UNCHANGED <<executedToolCalls, hasResumed, settings, selectedModel,
                   handlersSet, inputsDisabled, messages, backendLog,
                   genRequests, resumes, toolLog, sendNo, epoch, sendDisturbed, statusShown, extraction,
                   segmentation>>

\* onChunk of the streamed request (lines 404-422): the message element is
\* given the text received so far, segmented under enableCoT.
GeminiChunk ==
    /\ Running("handleGeminiMessage", "g_await")
    /\ Top.streaming
    /\ \E reply \in StreamReplies :
         /\ LET fullText == Chunks(reply)[Top.chunks + 1]
            IN  ui' = Append(ui,
                        IF settings.enableCoT
                        THEN formatResponseForDisplay(settings,
                                 processPartialCoTResponse(fullText))
                        ELSE JoinSpace(fullText))
         /\ stack' = ReplaceTop([Top EXCEPT !.reply = reply, !.chunks = @ + 1])
         /\ events' = IF Top.chunks = 0 /\ HasToolCall(reply)
                       THEN events + 1 ELSE events
    /\ UNCHANGED <<chatHistory, executedToolCalls, hasResumed, settings,
                   selectedModel, handlersSet, inputsDisabled, ret, messages,
                   backendLog, sendReplies, genRequests, resumes, toolLog,
                   sendNo, epoch, sendDisturbed,
                   lastThinkingContent, lastAnswerContent, statusShown, extraction,
                   segmentation>>

\* The generation fails.  Streaming: an AbortError is reported and swallowed
\* (lines 458-461), any other error is reported and rethrown (462-463).
\* Not streaming: the error is rethrown (517-519).
GeminiError ==
    /\ Running("handleGeminiMessage", "g_await")
    /\ events < MaxEvents
    /\ events' = events + 1
    /\ \E abort \in BOOLEAN :
         /\ ui' = IF Top.streaming THEN Append(ui, "error") ELSE ui
         /\ ret' = IF Top.streaming /\ abort THEN "return" ELSE "throw"
    /\ stack' = Pop
    /\ sendDisturbed' = TRUE
    /\ UNCHANGED <<chatHistory, executedToolCalls, hasResumed, settings,
                   selectedModel, handlersSet, inputsDisabled, messages,
                   backendLog, sendReplies, genRequests, resumes, toolLog,
                   sendNo, epoch,
                   lastThinkingContent, lastAnswerContent, statusShown, extraction,
                   segmentation>>

\* processToolCall returned: return (lines 428-429, 495-496).
GeminiReturn ==
    /\ Running("handleGeminiMessage", "g_child")
    /\ ret = "return"
    /\ stack' = Pop
    /\ UNCHANGED <<chatHistory, executedToolCalls, hasResumed, settings,
                   selectedModel, handlersSet, inputsDisabled, ret, messages,
                   backendLog, ui, sendReplies, genRequests, resumes, events,
                   toolLog, sendNo, epoch, sendDisturbed,
                   lastThinkingContent, lastAnswerContent, statusShown, extraction,
                   segmentation>>

\* ApiService.getTokenUsage resolves or fails (lines 453-463, streaming): an
\* AbortError is reported and swallowed, any other error reported and rethrown.
GeminiTokenUsage ==
    /\ Running("handleGeminiMessage", "g_tokens_await")
    /\ \E outcome \in {"ok"} \cup
                      (IF events < MaxEvents THEN {"abort", "error"} ELSE {}) :
         LET ok == outcome = "ok"
         IN  /\ events' = IF ok THEN events ELSE events + 1
             /\ sendDisturbed' = (sendDisturbed \/ ~ok)
             /\ ui' = IF ok THEN ui ELSE Append(ui, "error")
             /\ ret' = IF outcome = "error" THEN "throw" ELSE "return"
    /\ stack' = Pop
    /\ UNCHANGED <<chatHistory, executedToolCalls, hasResumed, settings,
                   selectedModel, handlersSet, inputsDisabled, messages,
                   backendLog, sendReplies, genRequests, resumes, toolLog,
                   sendNo, epoch,
                   lastThinkingContent, lastAnswerContent, statusShown, extraction,
                   segmentation>>

\* --------------------------------------------------------- processToolCall
\* One ToolsService invocation, as recorded in backendLog.
Invocation(op, call, arg) ==
    [op |-> op, arg |-> arg, key |-> CallKey(call), call |-> call]

\* One processToolCall invocation, as recorded in toolLog: the call, its
\* callKey, whether it was skipped as a duplicate, the send it belongs to, the
\* number of generation requests of that send issued before it, and the epoch.
Processed(call, isDuplicate) ==
    [call |-> call, key |-> CallKey(call), dup |-> isDuplicate,
     send |-> sendNo, gen |-> genRequests, epoch |-> epoch]

\* (typeof call.arguments.length === 'number' && call.arguments.length > 0)
\*   ? call.arguments.length : 1122
ChunkSize(call) ==
    LET v == Arg(call, "length")
    IN  IF v.t = "num" /\ v.n > 0 THEN v.n ELSE DefaultChunk

\* (typeof call.arguments.start === 'number' && call.arguments.start >= 0)
\*   ? call.arguments.start : 0
StartOffset(call) ==
    LET v == Arg(call, "start")
    IN  IF v.t = "num" /\ v.n >= 0 THEN v.n ELSE 0

\* Mutant of HasMore: the comparison is off by one.
HasMoreInclusive(offset, chunkSize, totalLength) == offset + chunkSize <= totalLength

\* const hasMore = offset + chunkSize < totalLength
HasMore(offset, chunkSize, totalLength) == offset + chunkSize < totalLength

\* The texts the model answers a pagination decision request with.
DecisionAnswers ==
    {<<"y", "e", "s">>, <<" ", "y", "E", "s", " ", "\n">>,
     <<"\n", "Y", "E", "S", " ", "o", "k">>,
     <<"n", "o">>, <<>>, <<"y", "e">>, <<"y", " ", "e", "s">>,
     <<"N", "O", " ", "y", "e", "s">>}

\* What a decision request resolves with: a response that holds a text, a
\* response without choices[0].message.content / without candidates
\* ("missing"), or a candidate without content ("nocontent").
DecisionResponse(shape, text) == [shape |-> shape, text |-> text]
DecisionResponses ==
    {DecisionResponse("text", t) : t \in DecisionAnswers} \cup
    {DecisionResponse("missing", <<>>), DecisionResponse("nocontent", <<>>)}

\* The text the decision is read from (lines 599, 603-604), or the TypeError
\* of reading a property of undefined / calling trim on a non-string.
DecisionText(model, response) ==
    IF response.shape = "text" THEN [threw |-> FALSE, text |-> response.text]
    ELSE IF IsGpt(model) \/ response.shape = "missing"
         THEN [threw |-> TRUE, text |-> <<>>]
    ELSE \* candidate.content?.text || ''
         [threw |-> FALSE, text |-> <<>>]

\* Mutant of ShouldFetchMore: the answer is not looked at.
ShouldFetchMoreAlways(answer) == TRUE

\* shouldFetchMore = text.trim().toLowerCase().startsWith('yes')
ShouldFetchMore(answer) ==
    StartsWith(ToLowerCase(Trim(answer)), <<"y", "e", "s">>)

\* The tool names processToolCall dispatches (lines 538, 565, 614).
ToolNames == {"web_search", "read_url", "instant_answer"}

\* Lines 527-538, 565-569, 614-617, 626-631: the duplicate test, the mark and
\* the dispatch up to the backend request.
ToolEntry ==
    /\ Running("processToolCall", "entry")
    /\ LET call == Top.call
           isDuplicate == IsDuplicate(executedToolCalls, call)
       IN  /\ toolLog' = Append(toolLog, Processed(call, isDuplicate))
           /\ IF isDuplicate
              THEN /\ stack' = ReplaceTop([Top EXCEPT !.pc = "finally",
                                                      !.isDuplicate = TRUE])
                   /\ UNCHANGED <<executedToolCalls, backendLog, statusShown>>
              ELSE /\ executedToolCalls' = executedToolCalls \cup {CallKey(call)}
                   \* UIController.showStatus (lines 539, 566, 615)
                   /\ statusShown' = (statusShown \/ call.tool \in ToolNames)
                   /\ CASE call.tool = "web_search" ->
                             /\ stack' = ReplaceTop([Top EXCEPT !.pc = "ws_await"])
                             /\ backendLog' = Append(backendLog,
                                  Invocation("webSearch", call,
                                             TemplateText(Arg(call, "query"))))
                        [] call.tool = "read_url" ->
                             /\ stack' = ReplaceTop([Top EXCEPT !.pc = "ru_await"])
                             /\ backendLog' = Append(backendLog,
                                  Invocation("readUrl", call,
                                             TemplateText(Arg(call, "url"))))
                        [] call.tool = "instant_answer" ->
                             /\ stack' = ReplaceTop([Top EXCEPT !.pc = "ia_await"])
                             /\ backendLog' = Append(backendLog,
                                  Invocation("instantAnswer", call,
                                             TemplateText(Arg(call, "query"))))
                        [] OTHER ->
                             \* throw new Error(`Unknown tool`), caught at line 630
                             /\ stack' = ReplaceTop([Top EXCEPT !.pc = "finally"])
                             /\ UNCHANGED backendLog
    /\ UNCHANGED <<chatHistory, hasResumed, settings, selectedModel, handlersSet,
                   inputsDisabled, ret, messages, ui, sendReplies, genRequests,
                   resumes, events, sendNo, epoch, sendDisturbed,
                   lastThinkingContent, lastAnswerContent, extraction,
                   segmentation>>

\* ToolsService.webSearch resolves, lines 541-548.
WebSearchResult ==
    /\ Running("processToolCall", "ws_await")
    \* the array webSearch resolves with: two results
    /\ \E items \in {<<U1, U2>>} :
         /\ chatHistory' = Append(chatHistory,
               SearchTurn(TemplateText(Arg(Top.call, "query")), Len(items)))
         /\ stack' = ReplaceTop([Top EXCEPT !.pc = "ws_loop", !.items = items,
                                            !.results = items])
    /\ ui' = Append(ui, "search")
    /\ UNCHANGED <<executedToolCalls, hasResumed, settings, selectedModel,
                   handlersSet, inputsDisabled, ret, messages, backendLog,
                   sendReplies, genRequests, resumes, events, toolLog, sendNo,
                   epoch, sendDisturbed,
                   lastThinkingContent, lastAnswerContent, statusShown, extraction,
                   segmentation>>

\* Mutant of WebSearchFails: the failure is shown but no Turn is appended.
WebSearchFailsWithoutTurn ==
    /\ Running("processToolCall", "ws_await")
    /\ events < MaxEvents
    /\ events' = events + 1
    /\ stack' = ReplaceTop([Top EXCEPT !.pc = "finally"])
    /\ ui' = Append(ui, "fallback")
    /\ sendDisturbed' = TRUE
    /\ UNCHANGED <<chatHistory, executedToolCalls, hasResumed, settings,
                   selectedModel, handlersSet, inputsDisabled, ret, messages,
                   backendLog, sendReplies, genRequests, resumes, toolLog,
                   sendNo, epoch,
                   lastThinkingContent, lastAnswerContent, statusShown, extraction,
                   segmentation>>

\* Mutant of WebSearchFails: the failed call is taken out of executedToolCalls.
WebSearchFailsForgetsCall ==
    /\ Running("processToolCall", "ws_await")
    /\ events < MaxEvents
    /\ events' = events + 1
    /\ chatHistory' = Append(chatHistory,
          FallbackTurn(TemplateText(Arg(Top.call, "query"))))
    /\ stack' = ReplaceTop([Top EXCEPT !.pc = "finally"])
    /\ ui' = Append(ui, "fallback")
    /\ sendDisturbed' = TRUE
    /\ executedToolCalls' = executedToolCalls \ {CallKey(Top.call)}
    /\ UNCHANGED <<hasResumed, settings, selectedModel,
                   handlersSet, inputsDisabled, ret, messages, backendLog,
                   sendReplies, genRequests, resumes, toolLog, sendNo, epoch,
                   lastThinkingContent, lastAnswerContent, statusShown, extraction,
                   segmentation>>

\* ToolsService.webSearch fails, lines 558-563.
WebSearchFails ==
    /\ Running("processToolCall", "ws_await")
    /\ events < MaxEvents
    /\ events' = events + 1
    /\ chatHistory' = Append(chatHistory,
          FallbackTurn(TemplateText(Arg(Top.call, "query"))))
    /\ stack' = ReplaceTop([Top EXCEPT !.pc = "finally"])
    /\ ui' = Append(ui, "fallback")
    /\ sendDisturbed' = TRUE
    /\ UNCHANGED <<executedToolCalls, hasResumed, settings, selectedModel,
                   handlersSet, inputsDisabled, ret, messages, backendLog,
                   sendReplies, genRequests, resumes, toolLog, sendNo, epoch,
                   lastThinkingContent, lastAnswerContent, statusShown, extraction,
                   segmentation>>

\* for (const item of items) await processToolCall({read_url ...}), lines 551-557.
\* Mutant of Prefetch: the nested calls of all results are started at once.
PrefetchAllAtOnce ==
    /\ Running("processToolCall", "ws_loop")
    /\ ret \in {"none", "return"}
    /\ ret' = "none"
    /\ IF Top.items = <<>>
       THEN stack' = ReplaceTop([Top EXCEPT !.pc = "finally"])
       ELSE stack' = ReplaceTop([Top EXCEPT !.items = <<>>])
                       \o [i \in 1..Len(Top.items) |->
                              CallFrame(PrefetchCall(
                                  Top.items[Len(Top.items) + 1 - i]))]
    /\ UNCHANGED <<chatHistory, executedToolCalls, hasResumed, settings,
                   selectedModel, handlersSet, inputsDisabled, messages,
                   backendLog, ui, sendReplies, genRequests, resumes, events,
                   toolLog, sendNo, epoch, sendDisturbed,
                   lastThinkingContent, lastAnswerContent, statusShown, extraction,
                   segmentation>>

\* The loop over the results, lines 551-557: the nested processToolCall of the
\* next result is awaited before the one after it starts.
Prefetch ==
    /\ Running("processToolCall", "ws_loop")
    /\ ret \in {"none", "return"}
    /\ ret' = "none"
    /\ IF Top.items = <<>>
       THEN stack' = ReplaceTop([Top EXCEPT !.pc = "finally"])
       ELSE stack' = Append(ReplaceTop([Top EXCEPT !.items = Tail(Top.items)]),
                            CallFrame(PrefetchCall(Head(Top.items))))
    /\ UNCHANGED <<chatHistory, executedToolCalls, hasResumed, settings,
                   selectedModel, handlersSet, inputsDisabled, messages,
                   backendLog, ui, sendReplies, genRequests, resumes, events,
                   toolLog, sendNo, epoch, sendDisturbed,
                   lastThinkingContent, lastAnswerContent, statusShown, extraction,
                   segmentation>>

\* One pass of the pagination loop from `offset`, lines 579-590: the chunk Turn
\* is appended and the loop either ends or asks for a decision.
PaginateFrom(offset, totalLength, decisions, answers) ==
    LET call == Top.call
        chunkSize == ChunkSize(call)
        hasMore == HasMore(offset, chunkSize, totalLength)
    IN  IF offset < totalLength
        THEN /\ chatHistory' = Append(chatHistory,
                   ChunkTurn(TemplateText(Arg(call, "url")), offset, hasMore))
             /\ ui' = Append(ui, "chunk")
             /\ stack' = ReplaceTop([Top EXCEPT
                   !.pc = IF hasMore THEN "ru_decide_await" ELSE "finally",
                   !.offset = offset, !.totalLength = totalLength,
                   !.decisions = decisions, !.answers = answers])
        ELSE /\ stack' = ReplaceTop([Top EXCEPT !.pc = "finally",
                                                !.decisions = decisions,
                                                !.answers = answers])
             /\ UNCHANGED <<chatHistory, ui>>

\* ToolsService.readUrl resolves, lines 569, 575-590.
ReadUrlResult ==
    /\ Running("processToolCall", "ru_await")
    /\ Top.file = "chat-controller.js"
    /\ LET totalLength == PageLength(TemplateText(Arg(Top.call, "url")))
       IN  IF totalLength = 0
           THEN \* if (pageText) is false for ''
                /\ stack' = ReplaceTop([Top EXCEPT !.pc = "finally"])
                /\ UNCHANGED <<chatHistory, ui>>
           ELSE PaginateFrom(StartOffset(Top.call), totalLength, <<>>, <<>>)
    /\ UNCHANGED <<executedToolCalls, hasResumed, settings, selectedModel,
                   handlersSet, inputsDisabled, ret, messages, backendLog,
                   sendReplies, genRequests, resumes, events, toolLog, sendNo,
                   epoch, sendDisturbed,
                   lastThinkingContent, lastAnswerContent, statusShown, extraction,
                   segmentation>>

\* ToolsService.readUrl fails, lines 570-574.
ReadUrlFails ==
    /\ Running("processToolCall", "ru_await")
    /\ Top.file = "chat-controller.js"
    /\ events < MaxEvents
    /\ events' = events + 1
    /\ stack' = ReplaceTop([Top EXCEPT !.pc = "finally"])
    /\ ui' = Append(ui, "read_error")
    /\ sendDisturbed' = TRUE
    /\ UNCHANGED <<chatHistory, executedToolCalls, hasResumed, settings,
                   selectedModel, handlersSet, inputsDisabled, ret, messages,
                   backendLog, sendReplies, genRequests, resumes, toolLog,
                   sendNo, epoch,
                   lastThinkingContent, lastAnswerContent, statusShown, extraction,
                   segmentation>>

\* The decision request resolves, lines 592-611.
DecisionReply ==
    /\ Running("processToolCall", "ru_decide_await")
    /\ Top.file = "chat-controller.js"
    /\ \E response \in DecisionResponses :
         LET d == DecisionText(selectedModel, response)
         IN  IF ~d.threw /\ ShouldFetchMore(d.text)
             THEN \* offset += chunkSize
                  PaginateFrom(Top.offset + ChunkSize(Top.call),
                               Top.totalLength, Append(Top.decisions, "yes"),
                               Append(Top.answers, response))
             ELSE \* if (!shouldFetchMore) break; a TypeError is caught at 607
                  /\ stack' = ReplaceTop([Top EXCEPT !.pc = "finally",
                         !.decisions = Append(Top.decisions,
                                              IF d.threw THEN "error" ELSE "no"),
                         !.answers = Append(Top.answers, response)])
                  /\ UNCHANGED <<chatHistory, ui>>
    /\ UNCHANGED <<executedToolCalls, hasResumed, settings, selectedModel,
                   handlersSet, inputsDisabled, ret, messages, backendLog,
                   sendReplies, genRequests, resumes, events, toolLog, sendNo,
                   epoch, sendDisturbed,
                   lastThinkingContent, lastAnswerContent, statusShown, extraction,
                   segmentation>>

\* The decision request fails, lines 607-610: shouldFetchMore stays false.
DecisionError ==
    /\ Running("processToolCall", "ru_decide_await")
    /\ Top.file = "chat-controller.js"
    /\ events < MaxEvents
    /\ events' = events + 1
    /\ stack' = ReplaceTop([Top EXCEPT !.pc = "finally",
                            !.decisions = Append(Top.decisions, "error"),
                            !.answers = Append(Top.answers,
                                               DecisionResponse("failed", <<>>))])
    /\ sendDisturbed' = TRUE
    /\ UNCHANGED <<chatHistory, executedToolCalls, hasResumed, settings,
                   selectedModel, handlersSet, inputsDisabled, ret, messages,
                   backendLog, ui, sendReplies, genRequests, resumes, toolLog,
                   sendNo, epoch,
                   lastThinkingContent, lastAnswerContent, statusShown, extraction,
                   segmentation>>

\* ---------------------------------------------- unnamed/part_000, read_url
\* The read_url branch of processToolCall in src/unnamed/part_000 up to its
\* first decision request, lines 659-696.  The readUrl request fails: the
\* renderer is told, the status is cleared and processToolCall returns
\* (665-671).  It resolves: the while (true) loop appends a chunk Turn before
\* any test (679-686), for an empty page and for a start at or beyond the end
\* of the page too, and leaves at `if (!hasMore) break` (689); start and
\* chunkSize are computed as in chat-controller.js (674-675).  Line 693 reads
\* .content of the last user Turn outside any try block.
Part000ReadUrl ==
    /\ Running("processToolCall", "ru_await")
    /\ Top.file = "part_000"
    /\ \E ok \in {TRUE} \cup (IF events < MaxEvents THEN {FALSE} ELSE {}) :
         LET call == Top.call
             url == TemplateText(Arg(call, "url"))
             totalLength == PageLength(url)
             offset == StartOffset(call)
             hasMore == HasMore(offset, ChunkSize(call), totalLength)
             lastUser == \E i \in 1..Len(chatHistory) : chatHistory[i].role = "user"
         IN  /\ events' = IF ok THEN events ELSE events + 1
             /\ sendDisturbed' = (sendDisturbed \/ ~ok)
             /\ chatHistory' = IF ok
                   THEN Append(chatHistory, ChunkTurn(url, offset, hasMore))
                   ELSE chatHistory
             /\ ui' = Append(ui, IF ok THEN "chunk" ELSE "read_error")
             /\ statusShown' = (ok /\ statusShown)
             /\ IF ok /\ (~hasMore \/ lastUser)
                THEN /\ stack' = ReplaceTop([Top EXCEPT
                           !.pc = IF hasMore THEN "ru_decide_await" ELSE "finally",
                           !.offset = offset, !.totalLength = totalLength])
                     /\ UNCHANGED ret
                ELSE \* return (670), or the TypeError of line 693
                     /\ stack' = Pop
                     /\ ret' = IF ok THEN "throw" ELSE "return"
    /\ UNCHANGED <<executedToolCalls, hasResumed, settings, selectedModel,
                   handlersSet, inputsDisabled, messages, backendLog,
                   sendReplies, genRequests, resumes, toolLog, sendNo, epoch,
                   lastThinkingContent, lastAnswerContent, extraction,
                   segmentation>>

\* The decision request of src/unnamed/part_000 ends, lines 698-734.  With
\* Gemini a response without candidates gives the text '' (714-722) and a
\* candidate without content a TypeError; with GPT both are TypeErrors
\* (705); the catch of 729 leaves shouldFetchMore false.  After an
\* affirmative answer the offset advances (734) and the next pass appends
\* its chunk Turn without a test of the offset (679-689).
Part000Decision ==
    /\ Running("processToolCall", "ru_decide_await")
    /\ Top.file = "part_000"
    /\ \E response \in DecisionResponses \cup
                       (IF events < MaxEvents
                        THEN {DecisionResponse("failed", <<>>)} ELSE {}) :
         LET call == Top.call
             failed == response.shape = "failed"
             threw == \/ failed
                      \/ response.shape = "nocontent"
                      \/ response.shape = "missing" /\ IsGpt(selectedModel)
             shouldFetchMore == ~threw /\ ShouldFetchMore(response.text)
             offset == Top.offset + ChunkSize(call)
             hasMore == HasMore(offset, ChunkSize(call), Top.totalLength)
             lastUser == \E i \in 1..Len(chatHistory) : chatHistory[i].role = "user"
             decisions == Append(Top.decisions,
                                 IF shouldFetchMore THEN "yes"
                                 ELSE IF threw THEN "error" ELSE "no")
             answers == Append(Top.answers, response)
         IN  /\ events' = IF failed THEN events + 1 ELSE events
             /\ sendDisturbed' = (sendDisturbed \/ failed)
             /\ IF shouldFetchMore
                THEN /\ chatHistory' = Append(chatHistory,
                           ChunkTurn(TemplateText(Arg(call, "url")), offset, hasMore))
                     /\ ui' = Append(ui, "chunk")
                     /\ IF ~hasMore \/ lastUser
                        THEN /\ stack' = ReplaceTop([Top EXCEPT
                                   !.pc = IF hasMore THEN "ru_decide_await"
                                          ELSE "finally",
                                   !.offset = offset,
                                   !.decisions = decisions, !.answers = answers])
                             /\ UNCHANGED ret
                        ELSE \* the TypeError of line 693
                             /\ stack' = Pop
                             /\ ret' = "throw"
                ELSE \* if (!shouldFetchMore) break
                     /\ stack' = ReplaceTop([Top EXCEPT !.pc = "finally",
                           !.decisions = decisions, !.answers = answers])
                     /\ UNCHANGED <<chatHistory, ui, ret>>
    /\ UNCHANGED <<executedToolCalls, hasResumed, settings, selectedModel,
                   handlersSet, inputsDisabled, messages, backendLog,
                   sendReplies, genRequests, resumes, toolLog, sendNo, epoch,
                   lastThinkingContent, lastAnswerContent, extraction,
                   segmentation, statusShown>>

\* ToolsService.instantAnswer resolves (lines 617-620) or fails (621-624).
InstantAnswerResult ==
    /\ Running("processToolCall", "ia_await")
    /\ \E ok \in {TRUE} \cup (IF events < MaxEvents THEN {FALSE} ELSE {}) :
         /\ events' = IF ok THEN events ELSE events + 1
         /\ sendDisturbed' = (sendDisturbed \/ ~ok)
         /\ chatHistory' = IF ok
               THEN Append(chatHistory,
                           InstantTurn(TemplateText(Arg(Top.call, "query"))))
               ELSE chatHistory
         /\ ui' = Append(ui, IF ok THEN "instant" ELSE "instant_error")
    /\ stack' = ReplaceTop([Top EXCEPT !.pc = "finally"])
    /\ UNCHANGED <<executedToolCalls, hasResumed, settings, selectedModel,
                   handlersSet, inputsDisabled, ret, messages, backendLog,
                   sendReplies, genRequests, resumes, toolLog, sendNo, epoch,
                   lastThinkingContent, lastAnswerContent, statusShown, extraction,
                   segmentation>>

\* The finally block, lines 632-650: the continuation up to its model
\* request, or the return.
ToolFinally ==
    /\ Running("processToolCall", "finally")
    /\ statusShown' = FALSE
    /\ IF ShouldResume(Top.call, Top.isDuplicate, hasResumed)
       THEN LET e == EnterContinuation(selectedModel, chatHistory, settings)
            IN  /\ hasResumed' = TRUE
                /\ ui' = ui \o e.ui
                /\ chatHistory' = e.history
                \* the locals of the try block are out of scope
                /\ stack' = Append(ReplaceTop([Top EXCEPT !.pc = "cont_child",
                                                          !.decisions = <<>>,
                                                          !.answers = <<>>,
                                                          !.results = <<>>]),
                                   e.frame)
                /\ messages' = e.messages
                /\ genRequests' = genRequests + 1
                /\ resumes' = resumes + 1
                /\ ret' = "none"
       ELSE /\ stack' = Pop
            /\ ret' = "return"
            /\ UNCHANGED <<hasResumed, chatHistory, messages, genRequests, resumes,
                           ui>>
    /\ UNCHANGED <<executedToolCalls, settings, selectedModel, handlersSet,
                   inputsDisabled, backendLog, sendReplies, events, toolLog,
                   sendNo, epoch, sendDisturbed,
                   lastThinkingContent, lastAnswerContent, extraction,
                   segmentation>>

\* Mutant of ToolReturn: an error of the continuation is thrown on.
ToolReturnRethrows ==
    /\ Running("processToolCall", "cont_child")
    /\ ret # "none"
    /\ stack' = Pop
    /\ ret' = ret
    /\ UNCHANGED <<chatHistory, executedToolCalls, hasResumed, settings,
                   selectedModel, handlersSet, inputsDisabled, messages,
                   backendLog, ui, sendReplies, genRequests, resumes, events,
                   toolLog, sendNo, epoch, sendDisturbed,
                   lastThinkingContent, lastAnswerContent, statusShown, extraction,
                   segmentation>>

\* The continuation returned or threw (lines 651-655): processToolCall returns.
ToolReturn ==
    /\ Running("processToolCall", "cont_child")
    /\ ret # "none"
    /\ stack' = Pop
    /\ ret' = "return"
    /\ UNCHANGED <<chatHistory, executedToolCalls, hasResumed, settings,
                   selectedModel, handlersSet, inputsDisabled, messages,
                   backendLog, ui, sendReplies, genRequests, resumes, events,
                   toolLog, sendNo, epoch, sendDisturbed,
                   lastThinkingContent, lastAnswerContent, statusShown, extraction,
                   segmentation>>

\* ------------------------------------------------------------------- Next
Next ==
    \/ InitChat
    \/ UpdateSettings
    \/ ClearChat
    \/ SendEmpty
    \/ SendMessage
    \/ SendEnds
    \/ OpenAIReply
    \/ OpenAIChunk
    \/ OpenAIError
    \/ OpenAIContinue
    \/ GeminiReply
    \/ GeminiChunk
    \/ GeminiError
    \/ GeminiReturn
    \/ GeminiTokenUsage
    \/ ToolEntry
    \/ WebSearchResult
    \/ WebSearchFails
    \/ Prefetch
    \/ ReadUrlResult
    \/ ReadUrlFails
    \/ DecisionReply
    \/ DecisionError
    \/ InstantAnswerResult
    \/ ToolFinally
    \/ ToolReturn

Spec == Init /\ [][Next]_vars

\* ------------------------------------------------------------- pagination
\* The read_url calls whose pagination is explored: every page, with start
\* and length absent, of a wrong type, out of range and in range.
Optional(k, v) == IF v = Undefined THEN <<>> ELSE <<Member(k, v)>>
PageCalls ==
    {ToolCall(<<"tool", "arguments">>, "read_url",
              <<Member("url", StrV(u))>> \o Optional("start", s) \o Optional("length", l)) :
        u \in {U0, U1, U2, U3},
        s \in {Undefined, StrV("5"), NumV(-1), NumV(0), NumV(1122), NumV(2500),
               NumV(3000), NumV(4000)},
        l \in {Undefined, NumV(0), NumV(500), NumV(DefaultChunk), NumV(4000)}}

\* src/unnamed/part_000: sendMessage and the handler it calls up to the
\* request of the non-streaming branch (lines 275-305, 413-417, 467-469,
\* 552-555).  handleOpenAIMessage pushes no Turn of its own and
\* handleGeminiMessage pushes the user Turn; both give the request
\* chatHistory itself, with no separate system message in front.
Part000EnterSend(model, h, enhancedMessage) ==
    LET h1 == IF IsGpt(model) THEN Append(h, UserTurn(enhancedMessage))
              ELSE Append(IF Len(h) = 0 THEN Append(h, UserTurn(EmptyText)) ELSE h,
                          UserTurn(enhancedMessage))
    IN  [history |-> h1, messages |-> h1]

\* The state in which the readUrl request of a read_url call is pending: the
\* first reply of the first send after init was the call (lines 279-360 or
\* 279-495, then 526-569; in part_000 lines 275-305, 413-431 or 552-577,
\* then 606-663, where the reply is not pushed before processToolCall).
\* The call runs in either copy of the controller.
PageInit ==
    \E model \in Models, call \in PageCalls,
       file \in {"chat-controller.js", "part_000"} :
        LET s == [streaming |-> FALSE, enableCoT |-> FALSE, showThinking |-> TRUE]
            e == EnterSend(model, <<SystemTurn>>, Text("m1", 0), s)
            e0 == Part000EnterSend(model, <<SystemTurn>>, Text("m1", 0))
            reply == CallReply(call)
            handler == IF IsGpt(model) THEN "oa_child" ELSE "g_child"
        IN  /\ selectedModel = model
            /\ chatHistory = IF file = "part_000" THEN e0.history
                             ELSE IF IsGpt(model)
                             THEN Append(e.history, ReplyTurn(reply.raw))
                             ELSE e.history
            /\ stack = <<[Frame("sendMessage", "s_child") EXCEPT !.file = file],
                         IF file = "part_000"
                         THEN [Frame(e.frame.fn, handler) EXCEPT !.file = file]
                         ELSE [e.frame EXCEPT !.pc = handler],
                         [CallFrame(call) EXCEPT !.pc = "ru_await",
                                                 !.file = file]>>
            /\ messages = IF file = "part_000" THEN e0.messages ELSE e.messages
            /\ executedToolCalls = {CallKey(call)}
            /\ backendLog = <<Invocation("readUrl", call,
                                         TemplateText(Arg(call, "url")))>>
            /\ toolLog = <<[call |-> call, key |-> CallKey(call), dup |-> FALSE,
                            send |-> 1, gen |-> 1, epoch |-> 0]>>
            /\ sendReplies = <<reply>>
            /\ hasResumed = FALSE
            /\ settings = s
            /\ handlersSet = TRUE
            /\ inputsDisabled = TRUE
            /\ statusShown = TRUE
            /\ ret = "none"
            /\ ui = <<"user">> \o e.ui
            /\ genRequests = 1
            /\ resumes = 0
            /\ sendNo = 1
            /\ epoch = 0
            /\ sendDisturbed = FALSE
            /\ lastThinkingContent = ""
            /\ lastAnswerContent = ""
            /\ extraction = NoExtraction
            /\ segmentation = NoSegmentation
            /\ events = 2

\* The steps of one read_url call up to its finally block (in part_000: up
\* to the statement after the dispatch, line 746, or to its return).
PageNext ==
    \/ ReadUrlResult
    \/ ReadUrlFails
    \/ DecisionReply
    \/ DecisionError
    \/ Part000ReadUrl
    \/ Part000Decision

PageSpec == PageInit /\ [][PageNext]_vars

\* ---------------------------------------------------------- tool dispatch
\* The tool calls whose dispatch is explored: every tool with its argument
\* present, empty and missing, a URL that is not an http(s) URL, and a tool
\* name that is not dispatched.  U0..U3 stand for https URLs.
ToolCalls ==
    {ToolCall(<<"tool", "arguments">>, tool, Optional("query", q)) :
        tool \in {"web_search", "instant_answer"},
        q \in {Undefined, StrV(""), StrV(Q1)}}
    \cup {ToolCall(<<"tool", "arguments">>, "read_url", Optional("url", u)) :
             u \in {Undefined, StrV("ftp://host/file"), StrV(U1)}}
    \cup {UnknownToolCall}

\* The state in which processToolCall is entered for the tool call of the
\* first reply of the first send after init (lines 279-360 or 279-495).  A
\* streamed reply has been written to the renderer by onChunk, in one chunk
\* (345-348, 404-422).
ToolInit ==
    \E model \in Models, streaming \in BOOLEAN, call \in ToolCalls :
        LET s == [streaming |-> streaming, enableCoT |-> FALSE,
                  showThinking |-> TRUE]
            e == EnterSend(model, <<SystemTurn>>, Text("m1", 0), s)
            reply == CallReply(call)
            fullText == Chunks(reply)[1]
            streamed == IF ~streaming THEN <<>>
                        ELSE IF IsGpt(model) THEN <<"empty", JoinSpace(fullText)>>
                        ELSE <<JoinSpace(fullText)>>
        IN  /\ selectedModel = model
            /\ chatHistory = IF IsGpt(model)
                             THEN Append(e.history, ReplyTurn(reply.raw))
                             ELSE e.history
            /\ stack = <<Frame("sendMessage", "s_child"),
                         [e.frame EXCEPT !.pc = IF IsGpt(model) THEN "oa_child"
                                                ELSE "g_child",
                                         !.reply = IF streaming THEN reply
                                                   ELSE NoReply,
                                         !.chunks = IF streaming THEN 1 ELSE 0],
                         CallFrame(call)>>
            /\ messages = e.messages
            /\ executedToolCalls = {}
            /\ backendLog = <<>>
            /\ toolLog = <<>>
            /\ sendReplies = <<reply>>
            /\ hasResumed = FALSE
            /\ settings = s
            /\ handlersSet = TRUE
            /\ inputsDisabled = TRUE
            /\ statusShown = TRUE
            /\ ret = "none"
            /\ ui = <<"user">> \o e.ui \o streamed
            /\ genRequests = 1
            /\ resumes = 0
            /\ sendNo = 1
            /\ epoch = 0
            /\ sendDisturbed = FALSE
            /\ lastThinkingContent = ""
            /\ lastAnswerContent = ""
            /\ extraction = NoExtraction
            /\ segmentation = NoSegmentation
            /\ events = 2

\* The steps of the send from there to its end.
ToolNext ==
    \/ ToolEntry
    \/ WebSearchResult
    \/ WebSearchFails
    \/ Prefetch
    \/ ReadUrlResult
    \/ ReadUrlFails
    \/ DecisionReply
    \/ DecisionError
    \/ InstantAnswerResult
    \/ ToolFinally
    \/ ToolReturn
    \/ OpenAIReply
    \/ OpenAIChunk
    \/ OpenAIError
    \/ OpenAIContinue
    \/ GeminiReply
    \/ GeminiChunk
    \/ GeminiError
    \/ GeminiReturn
    \/ GeminiTokenUsage
    \/ SendEnds

ToolSpec == ToolInit /\ [][ToolNext]_vars

\* ------------------------------------------------- extractToolCall alone
\* The texts extractToolCall is applied to: up to MaxSegments pieces, each a
\* word, an inline object (a tool call, an object lacking a field or holding
\* a falsy one, no JSON, a brace inside a string), a single brace, a fenced
\* block (a tool call, no JSON, null, an object lacking a field) or a single
\* fence.
InlineSearch == <<"{", ToolSearch, ",", ArgumentsKey, "{", QueryMember, "}", "}">>
InlineRead == <<"{", " ", ToolRead, ",", "\n", ArgumentsKey, " ", "{", "}", " ", "}">>
InlineNote == <<"{", ToolRead, ",", BraceInString, ",", ArgumentsKey, "{", "}", "}">>
Segments ==
    {<<Word>>,
     InlineSearch, InlineRead, InlineNote,
     <<"{", ToolSearch, "}">>,
     <<"{", ToolEmpty, ",", ArgumentsNull, "}">>,
     <<"{", Word, "}">>,
     <<"{", ToolSearch, ",", "}">>,
     <<"{">>, <<"}">>,
     <<Fence, "\n">> \o InlineSearch \o <<"\n", FenceEnd>>,
     <<FenceUpper>> \o InlineRead \o <<FenceEnd>>,
     <<Fence>> \o InlineNote \o <<FenceEnd>>,
     <<Fence, " ", Word, " ", FenceEnd>>,
     <<Fence, NullLiteral, FenceEnd>>,
     <<Fence, "{", ToolSearch, "}", FenceEnd>>,
     <<Fence>>, <<FenceEnd>>}

\* The texts made of at most n pieces.
RECURSIVE TextsOf(_)
TextsOf(n) ==
    IF n = 0 THEN {<<>>}
    ELSE LET shorter == TextsOf(n - 1)
         IN  shorter \cup {t \o piece : t \in shorter, piece \in Segments}

ExtractInit ==
    /\ extraction \in {[text |-> t, called |-> FALSE, result |-> NoResult] :
                          t \in TextsOf(MaxSegments)}
    /\ segmentation = NoSegmentation
    /\ chatHistory = <<>>
    /\ executedToolCalls = {}
    /\ hasResumed = FALSE
    /\ settings = [streaming |-> FALSE, enableCoT |-> FALSE, showThinking |-> TRUE]
    /\ selectedModel = "gpt"
    /\ handlersSet = FALSE
    /\ inputsDisabled = FALSE
    /\ statusShown = FALSE
    /\ stack = <<>>
    /\ ret = "none"
    /\ messages = <<>>
    /\ backendLog = <<>>
    /\ toolLog = <<>>
    /\ ui = <<>>
    /\ sendReplies = <<>>
    /\ genRequests = 0
    /\ resumes = 0
    /\ sendNo = 0
    /\ epoch = 0
    /\ sendDisturbed = FALSE
    /\ lastThinkingContent = ""
    /\ lastAnswerContent = ""
    /\ events = 0

\* extractToolCall is applied to the text.
ExtractToolCall ==
    /\ ~extraction.called
    /\ extraction' = [extraction EXCEPT !.called = TRUE,
                                        !.result = extractToolCall(extraction.text)]
    /\ UNCHANGED <<chatHistory, executedToolCalls, hasResumed, settings,
                   selectedModel, handlersSet, inputsDisabled, stack, ret,
                   messages, backendLog, toolLog, ui, sendReplies, genRequests,
                   resumes, sendNo, epoch, sendDisturbed, lastThinkingContent,
                   lastAnswerContent, statusShown, events, segmentation>>

ExtractNext == ExtractToolCall

ExtractSpec == ExtractInit /\ [][ExtractNext]_vars

\* ------------------------------------------------------ segmenters alone
\* The streams the segmenters are applied to: up to n words, each a marker,
\* a word that begins like the reasoning marker, or a plain word.
RECURSIVE StreamsOf(_)
StreamsOf(n) ==
    IF n = 0 THEN {<<>>}
    ELSE LET shorter == StreamsOf(n - 1)
         IN  shorter \cup {Append(t, word) : t \in shorter,
                              word \in {StepMarker, AnswerMarker, StepLike, "done"}}

SegInit ==
    /\ segmentation \in {[stream |-> t, calls |-> <<>>] : t \in StreamsOf(MaxWords)}
    /\ extraction = NoExtraction
    /\ chatHistory = <<>>
    /\ executedToolCalls = {}
    /\ hasResumed = FALSE
    /\ settings = [streaming |-> TRUE, enableCoT |-> TRUE, showThinking |-> TRUE]
    /\ selectedModel = "gemini"
    /\ handlersSet = FALSE
    /\ inputsDisabled = FALSE
    /\ statusShown = FALSE
    /\ stack = <<>>
    /\ ret = "none"
    /\ messages = <<>>
    /\ backendLog = <<>>
    /\ toolLog = <<>>
    /\ ui = <<>>
    /\ sendReplies = <<>>
    /\ genRequests = 0
    /\ resumes = 0
    /\ sendNo = 0
    /\ epoch = 0
    /\ sendDisturbed = FALSE
    /\ lastThinkingContent = ""
    /\ lastAnswerContent = ""
    /\ events = 0

\* The latest two calls once the call c was made.
LatestCalls(c) ==
    IF segmentation.calls = <<>> THEN <<c>>
    ELSE <<segmentation.calls[Len(segmentation.calls)], c>>

\* processCoTResponse is applied to a prefix of the stream.
ProcessCoTResponse ==
    \E n \in 0..Len(segmentation.stream) :
        LET w == SubSeq(segmentation.stream, 1, n)
            c == CoTCache(w, lastThinkingContent, lastAnswerContent)
        IN  /\ segmentation' =
                  [segmentation EXCEPT !.calls = LatestCalls(
                      [fn |-> "processCoTResponse", text |-> w,
                       result |-> processCoTResponse(w, lastAnswerContent)])]
            /\ lastThinkingContent' = c.thinking
            /\ lastAnswerContent' = c.answer
            /\ UNCHANGED <<chatHistory, executedToolCalls, hasResumed, settings,
                           selectedModel, handlersSet, inputsDisabled, stack, ret,
                           messages, backendLog, toolLog, ui, sendReplies,
                           genRequests, resumes, sendNo, epoch, sendDisturbed,
                           statusShown, events, extraction>>

\* processPartialCoTResponse is applied to a prefix of the stream.
ProcessPartialCoTResponse ==
    \E n \in 0..Len(segmentation.stream) :
        LET w == SubSeq(segmentation.stream, 1, n)
        IN  /\ segmentation' =
                  [segmentation EXCEPT !.calls = LatestCalls(
                      [fn |-> "processPartialCoTResponse", text |-> w,
                       result |-> processPartialCoTResponse(w)])]
            /\ UNCHANGED <<chatHistory, executedToolCalls, hasResumed, settings,
                           selectedModel, handlersSet, inputsDisabled, stack, ret,
                           messages, backendLog, toolLog, ui, sendReplies,
                           genRequests, resumes, sendNo, epoch, sendDisturbed,
                           lastThinkingContent, lastAnswerContent, statusShown,
                           events, extraction>>

SegNext == ProcessCoTResponse \/ ProcessPartialCoTResponse

SegSpec == SegInit /\ [][SegNext]_vars

\* =================================================================== claims
Last(seq) == seq[Len(seq)]
Range(seq) == {seq[i] : i \in 1..Len(seq)}

\* A model generation request is in flight.
GenPending == stack # <<>> /\ Top.pc \in {"oa_await", "g_await"}

\* handleOpenAIMessage / handleGeminiMessage has just returned normally to
\* sendMessage: the send is complete, its finally block runs next.
SendCompleted == Running("sendMessage", "s_child") /\ ret = "return"

\* The processToolCall invocations of the current send that came from a
\* model reply (not the prefetch calls of web_search).
ReplyCallsOfSend ==
    {i \in 1..Len(toolLog) :
        toolLog[i].send = sendNo /\ ~SkipContinue(toolLog[i].call)}

KnownTools == {"web_search", "read_url", "instant_answer"}

\* --------------------------------------------------------------------- C1
\* C1: within one conversation (since the last init), no two backend
\* invocations (webSearch, readUrl, instantAnswer) were made for the same
\* callKey: a second processToolCall with an identical call performs no
\* backend request.
C1_BackendAtMostOncePerCall ==
    \A i, j \in 1..Len(backendLog) :
        backendLog[i].key = backendLog[j].key => i = j

\* A call was skipped as a duplicate of a call whose backend was invoked.
C1_Witness ==
    \E j \in 1..Len(toolLog) :
        /\ toolLog[j].dup
        /\ \E i \in 1..Len(backendLog) : backendLog[i].key = CallKey(toolLog[j].call)

\* --------------------------------------------------------------------- C2
\* C2: during one sendMessage, processToolCall starts a continuation (the
\* nested handleOpenAIMessage / handleGeminiMessage call of its finally
\* block) at most once.
C2_AtMostOneContinuation == resumes <= 1

\* A second dispatched call of the send reaches the finally block after the
\* continuation of the send was started.
C2_Witness ==
    /\ resumes = 1
    /\ Running("processToolCall", "finally")
    /\ ~Top.isDuplicate /\ ~SkipContinue(Top.call)
    /\ hasResumed

\* --------------------------------------------------------------------- C3
\* Every reply of the current send is the same tool call.
SameCallSend ==
    /\ sendReplies # <<>>
    /\ \A i \in 1..Len(sendReplies) :
          HasToolCall(sendReplies[i]) /\ sendReplies[i].call = sendReplies[1].call

\* C3: when the model answers every generation request with the same tool
\* call, the send ends after finitely many requests: once the call has come
\* back a second time (and was skipped as a duplicate), the send issues no
\* further generation request, in both protocols.
C3_DuplicateEndsTheLoop ==
    (SameCallSend /\ Len(sendReplies) >= 2) => ~GenPending

\* --------------------------------------------------------------------- C4
\* The tool calls of the replies of this send are pairwise distinct and none
\* was skipped as a duplicate.
DistinctCallsInSend ==
    /\ \A i \in ReplyCallsOfSend : ~toolLog[i].dup
    /\ \A i, j \in 1..Len(sendReplies) :
          (HasToolCall(sendReplies[i]) /\ HasToolCall(sendReplies[j])
              /\ CallKey(sendReplies[i].call) = CallKey(sendReplies[j].call))
          => i = j

\* C4: a send in which no request fails, whose tool calls are distinct, ends
\* with a tool-free reply of the model appended as the final assistant Turn,
\* for any number of tool calls and in both protocols.
C4_SendEndsWithFinalTurn ==
    (SendCompleted /\ ~sendDisturbed /\ DistinctCallsInSend) =>
        /\ sendReplies # <<>>
        /\ ~HasToolCall(Last(sendReplies))
        /\ chatHistory # <<>>
        /\ Last(chatHistory) = ReplyTurn(Last(sendReplies).raw)

\* --------------------------------------------------------------------- C5
\* C5: when the tool call extracted from a reply is already in
\* executedToolCalls, the model is still invoked once more: a send does not
\* end with a skipped duplicate as its last step.
C5_DuplicateStillContinues ==
    (SendCompleted /\ ~sendDisturbed) =>
        \A i \in ReplyCallsOfSend :
            toolLog[i].dup => genRequests > toolLog[i].gen

\* --------------------------------------------------------------------- C6
\* C6: every processToolCall invocation without skipContinue that dispatches
\* a tool is followed by a model generation, also the second and later ones
\* of a send.
C6_DispatchFollowedByGeneration ==
    (SendCompleted /\ ~sendDisturbed) =>
        \A i \in ReplyCallsOfSend :
            (~toolLog[i].dup /\ toolLog[i].call.tool \in KnownTools)
                => genRequests > toolLog[i].gen

\* --------------------------------------------------------------------- C7
\* Calls with the same tool name, the same own keys and the same argument
\* keys and values, in any order.
SameToolAndArguments(a, b) ==
    /\ a.tool = b.tool
    /\ Range(a.top) = Range(b.top)
    /\ Range(a.arguments) = Range(b.arguments)

\* C7: two calls with the same tool name and the same argument values have
\* the same fingerprint whatever the order of their keys, so the later one
\* is treated as a duplicate.
C7_FingerprintIgnoresKeyOrder ==
    \A i, j \in 1..Len(toolLog) :
        (i < j /\ SameToolAndArguments(toolLog[i].call, toolLog[j].call)) =>
            /\ CallKey(toolLog[i].call) = CallKey(toolLog[j].call)
            /\ toolLog[j].dup

\* --------------------------------------------------------------------- C8
\* The same page slice: the same url and the same effective start and length.
SameSlice(a, b) ==
    /\ Arg(a, "url") = Arg(b, "url")
    /\ StartOffset(a) = StartOffset(b)
    /\ ChunkSize(a) = ChunkSize(b)

\* C8: a read_url issued by the model for a URL that web_search already
\* prefetched with the same effective start and length performs no second
\* fetch.
C8_PrefetchedUrlNotFetchedAgain ==
    \A i, j \in 1..Len(backendLog) :
        (/\ i < j
         /\ backendLog[i].op = "readUrl" /\ backendLog[j].op = "readUrl"
         /\ SkipContinue(backendLog[i].call) /\ ~SkipContinue(backendLog[j].call))
        => ~SameSlice(backendLog[i].call, backendLog[j].call)

\* --------------------------------------------------------------------- C9
\* C9: clearChat empties executedToolCalls: a call is skipped as a duplicate
\* only of a call executed since the last clearChat.
C9_ClearForgetsExecutedCalls ==
    \A j \in 1..Len(toolLog) :
        toolLog[j].dup =>
            \E i \in 1..(j - 1) :
                /\ CallKey(toolLog[i].call) = CallKey(toolLog[j].call)
                /\ ~toolLog[i].dup
                /\ toolLog[i].epoch = toolLog[j].epoch

\* -------------------------------------------------------------------- C10
\* C10: after init, chatHistory holds exactly one system Turn, at index 0.
C10_OneSystemTurnFirst ==
    handlersSet =>
        /\ chatHistory # <<>>
        /\ chatHistory[1].role = "system"
        /\ \A i \in 2..Len(chatHistory) : chatHistory[i].role # "system"

\* -------------------------------------------------------------------- C11
\* C11: when processToolCall is entered for the tool call of a model reply,
\* the raw text of that reply is the assistant Turn at the end of
\* chatHistory, in the GPT path and in the Gemini path.
C11_RawCallTextAppendedBeforeDispatch ==
    (Running("processToolCall", "entry") /\ ~SkipContinue(Top.call)) =>
        /\ sendReplies # <<>>
        /\ chatHistory # <<>>
        /\ Last(chatHistory) = ReplyTurn(Last(sendReplies).raw)

\* -------------------------------------------------------------------- C12
\* C12: the step in which a generation yields a tool-free reply appends one
\* assistant Turn whose content is the full raw model text, whatever
\* enableCoT and showThinking are.
C12_FinalTurnHoldsRawText ==
    [][(/\ Len(sendReplies') = Len(sendReplies) + 1
        /\ ~HasToolCall(Last(sendReplies')))
       => chatHistory' = Append(chatHistory, ReplyTurn(Last(sendReplies').raw))]_vars

\* A tool-free reply was finalized with enableCoT on: the renderer got a
\* text that differs from the raw text, the history got the raw text.
C12_Witness ==
    /\ settings.enableCoT
    /\ sendReplies # <<>> /\ ~HasToolCall(Last(sendReplies))
    /\ ui # <<>> /\ Last(ui) # Last(sendReplies).raw
    /\ Last(ui) = DisplayText(settings, Last(sendReplies).raw, "")
    /\ chatHistory # <<>>
    /\ Last(chatHistory) = ReplyTurn(Last(sendReplies).raw)

\* -------------------------------------------------------------------- C13
\* C13: every model generation request carries the system Turn first,
\* followed by the at most 10 most recent Turns of chatHistory in their
\* order: at most 11 messages.
C13_SystemTurnThenRecentWindow ==
    GenPending =>
        /\ messages # <<>>
        /\ messages[1] = SystemTurn
        /\ Len(messages) <= ContextWindow + 1
        /\ \/ Tail(messages) = SliceLast(chatHistory, ContextWindow)
           \/ chatHistory = <<>>

\* -------------------------------------------------------------------- C14
\* The step in which a pending generation request ends without a reply.
GenerationFails ==
    /\ GenPending
    /\ sendReplies' = sendReplies
    /\ epoch' = epoch
    /\ stack' # stack

\* C14: the step in which a model generation request fails (error result,
\* exception or abort) appends no Turn: chatHistory is what it was while the
\* request was pending.
C14_FailedGenerationAppendsNothing ==
    [][GenerationFails => chatHistory' = chatHistory]_vars

\* The top-level generation of a send failed: the history ends with the
\* user Turn of the send.
C14_Witness ==
    /\ Running("sendMessage", "s_child") /\ ret = "throw"
    /\ sendReplies = <<>> /\ genRequests = 1
    /\ epoch = 0
    /\ Last(chatHistory).role = "user"

\* -------------------------------------------------------------------- C15
ErrorShown(shown) == \E i \in 1..Len(shown) : shown[i] = "error"

\* C15: a failed continuation generation produces an error message to the
\* renderer as a failed top-level generation does: once the error thrown by
\* the continuation (or by the top-level handler) has been caught, the
\* renderer has got an error message.
C15_FailedGenerationIsShown ==
    [][((\/ Running("processToolCall", "cont_child")
         \/ Running("sendMessage", "s_child")) /\ ret = "throw")
       => ErrorShown(ui')]_vars

\* -------------------------------------------------------------------- C16
\* C16: a failed generation is not retried: while a generation request of a
\* send is pending, every earlier generation request of that send was
\* answered by a reply.
C16_NoRequestAfterFailedGeneration ==
    GenPending => genRequests = Len(sendReplies) + 1

\* -------------------------------------------------------------------- C17
\* C17: in Idle the inputs are enabled and the status is cleared, however the
\* last send ended.
C17_IdleInputsEnabled == Idle => (~inputsDisabled /\ ~statusShown)

\* A send that ended by a failed request shown to the renderer is over.
C17_Witness ==
    /\ Idle /\ sendNo > 0 /\ ~inputsDisabled /\ ~statusShown
    /\ sendDisturbed /\ ErrorShown(ui)

\* ------------------------------------------------------- C18, C19, C20
\* The chunk Turns in the history, in the order they were appended.
ChunkTurns ==
    SelectSeq(chatHistory, LAMBDA t : t.content.kind = "chunk")

\* ceil(L / C) for the page and the chunk size of a read_url call
CeilChunks(call) ==
    LET L == PageLength(TemplateText(Arg(call, "url")))
        C == ChunkSize(call)
    IN  (L + C - 1) \div C

\* The decision requests a read_url frame has issued so far.
DecisionRequests(frame) ==
    Len(frame.decisions) + (IF frame.pc = "ru_decide_await" THEN 1 ELSE 0)

\* The text begins, after leading whitespace, with y, e, s in either case.
Affirmative(text) ==
    \E k \in 0..Len(text) :
        /\ \A i \in 1..k : text[i] \in {" ", "\n"}
        /\ Len(text) >= k + 3
        /\ text[k + 1] \in {"y", "Y"}
        /\ text[k + 2] \in {"e", "E"}
        /\ text[k + 3] \in {"s", "S"}

\* The decision request resolved with an affirmative answer.
AffirmativeResponse(r) == r.shape = "text" /\ Affirmative(r.text)

YesCount(answers) ==
    Cardinality({i \in 1..Len(answers) : AffirmativeResponse(answers[i])})

\* -------------------------------------------------------------------- C18
\* C18: for content of length L and chunk size C one read_url call appends
\* at most ceil(L/C) chunk Turns and issues at most ceil(L/C) decision
\* requests, for every start offset and every sequence of decisions.
C18_PaginationBounded ==
    /\ Len(ChunkTurns) <= CeilChunks(Top.call)
    /\ DecisionRequests(Top) <= CeilChunks(Top.call)

\* -------------------------------------------------------------------- C19
\* C19 as claimed: when a read_url call that appended a chunk Turn is over,
\* its last chunk Turn is marked hasMore false, whatever the decisions were.
C19_LastChunkNeverHasMore ==
    (Running("processToolCall", "finally") /\ ChunkTurns # <<>>)
        => ~Last(ChunkTurns).content.more

\* C19 amended: when a read_url call that appended a chunk Turn is over, its
\* last chunk Turn is marked hasMore true exactly if the pagination was
\* ended by a negative or failed decision; a pagination that ran to the end
\* of the content ends with a chunk Turn marked hasMore false.
C19_LastChunkHasMoreOnlyAfterStop ==
    (Running("processToolCall", "finally") /\ ChunkTurns # <<>>)
        => (Last(ChunkTurns).content.more
              <=> (Top.decisions # <<>> /\ Last(Top.decisions) # "yes"))

\* A pagination continued by a decision ran to the end of the content.
C19_Witness ==
    /\ Running("processToolCall", "finally")
    /\ Top.decisions # <<>> /\ Last(Top.decisions) = "yes"
    /\ Len(ChunkTurns) >= 2
    /\ ~Last(ChunkTurns).content.more

\* -------------------------------------------------------------------- C20
\* The scenario of the claim: a page of 3000 characters read from offset 0
\* in chunks of 1122, the first decision negative.
C20_Scenario ==
    /\ Running("processToolCall", "finally")
    /\ PageLength(TemplateText(Arg(Top.call, "url"))) = ScenarioPage
    /\ StartOffset(Top.call) = 0
    /\ ChunkSize(Top.call) = DefaultChunk
    /\ Len(Top.answers) = 1 /\ ~AffirmativeResponse(Top.answers[1])

\* C20: pagination stops at the first negative decision: only the last
\* decision of a call may be other than affirmative, and a call that
\* appended chunk Turns appended 1 plus the number of affirmative decisions;
\* in the scenario exactly one chunk Turn, marked hasMore, is appended.
C20_StopsAtFirstNegativeDecision ==
    /\ \A i \in 1..(Len(Top.answers) - 1) : AffirmativeResponse(Top.answers[i])
    /\ Top.pc = "ru_decide_await" =>
          YesCount(Top.answers) = Len(Top.answers)
    /\ ChunkTurns = <<>> => Top.answers = <<>>
    /\ ChunkTurns # <<>> => Len(ChunkTurns) = 1 + YesCount(Top.answers)
    /\ C20_Scenario => (Len(ChunkTurns) = 1 /\ ChunkTurns[1].content.more)

C20_Witness == C20_Scenario /\ Len(ChunkTurns) = 1 /\ ChunkTurns[1].content.more

\* -------------------------------------------------------------------- C21
\* C21: a pagination decision continues the pagination only if the model's
\* answer, trimmed and lower-cased, starts with 'yes'; every other answer, a
\* missing answer and a failed decision request stop it: the loop is left
\* without a further chunk Turn and without an error raised.
C21_OnlyYesContinues ==
    /\ Len(Top.answers) = Len(Top.decisions)
    /\ \A i \in 1..Len(Top.decisions) :
          Top.decisions[i] = "yes" <=> AffirmativeResponse(Top.answers[i])
    /\ (Top.decisions # <<>> /\ Last(Top.decisions) # "yes") =>
          /\ Top.pc = "finally"
          /\ ret = "none"
          /\ Len(ChunkTurns) = Len(Top.decisions)

\* An answer with surrounding whitespace and mixed case continued the
\* pagination, a response without an answer stopped it.
C21_Witness ==
    /\ Running("processToolCall", "finally")
    /\ Len(Top.answers) = 2
    /\ Top.answers[1] = DecisionResponse("text", <<" ", "y", "E", "s", " ", "\n">>)
    /\ Top.answers[2].shape = "missing"
    /\ Top.decisions = <<"yes", "error">>
    /\ Len(ChunkTurns) = 2

\* -------------------------------------------------------------------- C22
\* The web_search frame has left its loop over the results of a successful
\* search.
PrefetchLoopDone ==
    /\ Running("processToolCall", "finally")
    /\ Top.call.tool = "web_search"
    /\ Top.results # <<>>

\* C22: after a successful web_search, processToolCall was invoked with a
\* read_url call with skipContinue for every result of the list, in order,
\* whether or not the fetch of an earlier result failed; a nested call is
\* always the innermost frame: it starts no continuation.
C22_EveryResultPrefetched ==
    /\ PrefetchLoopDone =>
          LET n == Len(Top.results)
              base == Len(toolLog) - n
          IN  /\ base >= 1
              /\ toolLog[base].call = Top.call
              /\ \A i \in 1..n :
                    /\ toolLog[base + i].call.tool = "read_url"
                    /\ SkipContinue(toolLog[base + i].call)
                    /\ Arg(toolLog[base + i].call, "url") = StrV(Top.results[i])
    /\ \A i \in 1..Len(stack) :
          SkipContinue(stack[i].call) =>
              /\ i = Len(stack)
              /\ stack[i].pc # "cont_child"

\* The fetch of the first result failed and the second result was fetched.
C22_Witness ==
    /\ PrefetchLoopDone
    /\ Len(Top.results) = 2
    /\ \E i \in 1..Len(ui) : ui[i] = "read_error"
    /\ Len(backendLog) >= 2
    /\ Last(backendLog).op = "readUrl"
    /\ Last(backendLog).arg = Top.results[2]
    /\ backendLog[Len(backendLog) - 1].arg = Top.results[1]
    /\ Last(ui) = "chunk"

\* -------------------------------------------------------------------- C23
\* The step in which the pending webSearch request of a call fails.
SearchFailsStep ==
    /\ Running("processToolCall", "ws_await")
    /\ Len(stack') = Len(stack)
    /\ stack'[Len(stack')].pc = "finally"

\* A dispatched web_search call is about to run its finally block.
SearchDone ==
    /\ Running("processToolCall", "finally")
    /\ Top.call.tool = "web_search"
    /\ ~Top.isDuplicate

\* C23: the step in which the web search backend fails appends exactly one
\* Turn, stating the failure, and issues no nested read_url; the search is
\* not invoked again for the call; and the finally block of a web_search
\* call starts the continuation under the same condition whether the search
\* failed or succeeded.
C23_FailedSearchOneTurnThenContinuation ==
    [][/\ SearchFailsStep =>
            /\ chatHistory' = Append(chatHistory,
                    FallbackTurn(TemplateText(Arg(Top.call, "query"))))
            /\ toolLog' = toolLog
            /\ backendLog' = backendLog
       /\ Cardinality({i \in 1..Len(backendLog) :
                          /\ backendLog[i].op = "webSearch"
                          /\ \E j \in 1..Len(backendLog) :
                                /\ j # i
                                /\ backendLog[j].op = "webSearch"
                                /\ backendLog[j].key = backendLog[i].key}) = 0
       /\ SearchDone =>
            /\ backendLog' = backendLog
            /\ toolLog' = toolLog
            /\ IF hasResumed
               THEN resumes' = resumes /\ genRequests' = genRequests
               ELSE /\ resumes' = resumes + 1
                    /\ genRequests' = genRequests + 1
                    /\ GenPending'
      ]_vars

\* The continuation of a web_search call whose search failed is pending:
\* the backend was invoked once, no nested call was made.
C23_Witness ==
    /\ GenPending
    /\ Len(stack) >= 2
    /\ stack[Len(stack) - 1].pc = "cont_child"
    /\ stack[Len(stack) - 1].call.tool = "web_search"
    /\ \E i \in 1..Len(chatHistory) : chatHistory[i].content.kind = "fallback"
    /\ Len(backendLog) = 1 /\ Len(toolLog) = 1
    /\ resumes = 1 /\ genRequests = 2

\* A Turn that states an error: the fallback Turn of a failed search, or a
\* Turn of kind "error".
ErrorTurn(turn) == turn.content.kind \in {"fallback", "error"}

\* A dispatched (not duplicate) call is about to run its finally block.
CallDone == Running("processToolCall", "finally") /\ ~Top.isDuplicate

\* -------------------------------------------------------------------- C24
\* call.arguments.query is missing or empty.
NoQuery(call) == Arg(call, "query") \in {Undefined, StrV("")}

\* C24: a web_search or instant_answer call whose query is missing or empty
\* invokes no backend; an error Turn is appended instead and the call ends
\* without an error raised.
C24_EmptyQueryNotDispatched ==
    /\ \A i \in 1..Len(backendLog) :
          backendLog[i].op \in {"webSearch", "instantAnswer"}
              => ~NoQuery(backendLog[i].call)
    /\ (CallDone /\ Top.call.tool \in {"web_search", "instant_answer"}
           /\ NoQuery(Top.call))
         => /\ chatHistory # <<>> /\ ErrorTurn(Last(chatHistory))
            /\ ret = "none"

\* -------------------------------------------------------------------- C25
\* U0..U3 stand for https URLs.
HttpUrls == {U0, U1, U2, U3}
\* call.arguments.url starts with http:// or https://
IsHttpUrl(call) == Arg(call, "url").t = "str" /\ Arg(call, "url").s \in HttpUrls

\* C25: a read_url call whose url does not start with http:// or https://
\* does not invoke readUrl; an error Turn is appended instead.
C25_NonHttpUrlNotDispatched ==
    /\ \A i \in 1..Len(backendLog) :
          backendLog[i].op = "readUrl" => IsHttpUrl(backendLog[i].call)
    /\ (CallDone /\ Top.call.tool = "read_url" /\ ~IsHttpUrl(Top.call))
         => chatHistory # <<>> /\ ErrorTurn(Last(chatHistory))

\* -------------------------------------------------------------------- C26
\* The readUrl request of the call failed.
ReadFailed ==
    /\ CallDone /\ Top.call.tool = "read_url"
    /\ ui # <<>> /\ Last(ui) = "read_error"

\* C26: when readUrl fails, an error Turn is appended to the conversation,
\* no chunk Turn is appended and no pagination decision is requested for
\* the call, and the call goes on to its finally block.
C26_FailedReadAppendsErrorTurn ==
    ReadFailed =>
        /\ chatHistory # <<>> /\ ErrorTurn(Last(chatHistory))
        /\ Top.answers = <<>>
        /\ ret = "none"

\* -------------------------------------------------------------------- C27
\* C27: a tool call with a tool name outside web_search, read_url and
\* instant_answer invokes no backend, is reported (the renderer gets an error
\* message or an error Turn is appended), and processToolCall goes on to its
\* finally block without an error raised.
C27_UnknownToolReported ==
    /\ \A i \in 1..Len(backendLog) : backendLog[i].call.tool \in KnownTools
    /\ (CallDone /\ Top.call.tool \notin KnownTools) =>
          /\ ret = "none"
          /\ \/ chatHistory # <<>> /\ ErrorTurn(Last(chatHistory))
             \/ ui # <<>> /\ Last(ui) \in {"error", "tool_error"}

\* -------------------------------------------------------------------- C28
\* C28: processToolCall never completes by throwing: an error (ret = "throw")
\* reaches either sendMessage from the top-level handler, with no
\* processToolCall frame left, or the catch of the continuation inside
\* processToolCall; never a caller of processToolCall.
C28_ToolCallNeverThrows ==
    ret = "throw" =>
        \/ stack = <<Frame("sendMessage", "s_child")>>
        \/ Running("processToolCall", "cont_child")

\* The continuation started by a call failed and the error is caught inside
\* processToolCall, after a backend failure of the same call.
C28_Witness ==
    /\ Running("processToolCall", "cont_child")
    /\ ret = "throw"
    /\ \E i \in 1..Len(ui) : ui[i] \in {"fallback", "read_error", "instant_error"}

\* -------------------------------------------------------------------- C29
LeastOf(S) == CHOOSE x \in S : \A y \in S : x <= y

TaggedFences == {Fence, FenceUpper}
AnyFences == {Fence, FenceUpper, FenceEnd}

\* Where a fenced block tagged json opens, and where the block that opens at
\* i closes: at the next three backticks (0 when there are none).
BlockOpeners(text) == {i \in 1..Len(text) : text[i] \in TaggedFences}
BlockEnd(text, i) ==
    LET ends == {j \in (i + 1)..Len(text) : text[j] \in AnyFences}
    IN  IF ends = {} THEN 0 ELSE LeastOf(ends)
FencedBlocks(text) == {i \in BlockOpeners(text) : BlockEnd(text, i) # 0}
BlockObject(text, i) == JSONParse(SubSeq(text, i + 1, BlockEnd(text, i) - 1))
ValidBlocks(text) ==
    {i \in FencedBlocks(text) : IsToolCallObject(BlockObject(text, i))}

\* An inline JSON tool call stands before index i of the text.
InlineCallsBefore(text, i) ==
    {<<a, b>> \in (1..(i - 1)) \X (1..(i - 1)) :
        /\ a < b
        /\ text[a] = "{"
        /\ text[b] = "}"
        /\ IsToolCallObject(JSONParse(SubSeq(text, a, b)))}

\* C29 as stated: when some json-tagged fenced block of the text holds an
\* object with truthy tool and arguments, extractToolCall returns the object
\* of such a block, whatever stands before it.
C29_AnyFencedCallWins ==
    (extraction.called /\ ValidBlocks(extraction.text) # {}) =>
        \E i \in ValidBlocks(extraction.text) :
            extraction.result = Found(BlockObject(extraction.text, i).members)

\* C29: when the first json-tagged fenced block of the text (from the first
\* tagged fence to the next three backticks) holds an object with truthy tool
\* and arguments, extractToolCall returns that object, even when an inline
\* JSON tool call stands earlier in the text; a result that is not the object
\* of that block is returned only when the block is absent, unparseable or
\* lacks a field.
C29_FirstFencedCallWins ==
    extraction.called =>
        LET text == extraction.text
            blocks == FencedBlocks(text)
            first == LeastOf(blocks)
        IN  /\ (blocks # {} /\ first \in ValidBlocks(text)) =>
                  extraction.result = Found(BlockObject(text, first).members)
            /\ (blocks # {} /\ extraction.result.found
                  /\ extraction.result.members # BlockObject(text, first).members) =>
                  first \notin ValidBlocks(text)

\* A valid fenced call was returned although another inline tool call stands
\* before the fence.
C29_Witness ==
    /\ extraction.called
    /\ FencedBlocks(extraction.text) # {}
    /\ LET text == extraction.text
           first == LeastOf(FencedBlocks(text))
       IN  /\ first \in ValidBlocks(text)
           /\ extraction.result = Found(BlockObject(text, first).members)
           /\ \E c \in InlineCallsBefore(text, first) :
                  JSONParse(SubSeq(text, c[1], c[2])).members
                      # BlockObject(text, first).members

\* -------------------------------------------------------------------- C30
\* The braces the scan sees, and the end of the candidate that starts at the
\* brace at i: the first index at which as many braces were closed as opened
\* (0 when the text ends before).
OpenBraces(text) == {k \in 1..Len(text) : BraceDelta(text[k]) = 1}
CloseBraces(text) == {k \in 1..Len(text) : BraceDelta(text[k]) = -1}
CandidateEnd(text, i) ==
    LET opens == OpenBraces(text)
        closes == CloseBraces(text)
        ends == {j \in closes :
                    /\ j > i
                    /\ Cardinality({k \in opens : i <= k /\ k <= j})
                         = Cardinality({k \in closes : i <= k /\ k <= j})}
    IN  IF ends = {} THEN 0 ELSE LeastOf(ends)
CandidateObject(text, i) ==
    IF CandidateEnd(text, i) = 0 THEN [kind |-> "error", members |-> <<>>]
    ELSE CandidateParse(text, i, CandidateEnd(text, i))
ValidCandidates(text) ==
    {i \in OpenBraces(text) : IsToolCallObject(CandidateObject(text, i))}

\* C30: when no json-tagged fenced block of the text holds a valid call,
\* extractToolCall returns the object of the leftmost balanced-brace substring
\* that parses as JSON with truthy tool and arguments, and returns no call
\* when there is no such substring.
C30_LeftmostBalancedCallReturned ==
    (extraction.called /\ ValidBlocks(extraction.text) = {}) =>
        LET text == extraction.text
            valid == ValidCandidates(text)
        IN  IF valid = {} THEN extraction.result = NoResult
            ELSE extraction.result
                     = Found(CandidateObject(text, LeastOf(valid)).members)

\* A candidate that parses but lacks a field and a candidate that does not
\* parse were skipped, and the tool call that follows them was returned.
C30_Witness ==
    /\ extraction.called
    /\ ValidBlocks(extraction.text) = {}
    /\ LET text == extraction.text
           valid == ValidCandidates(text)
       IN  /\ valid # {}
           /\ extraction.result
                  = Found(CandidateObject(text, LeastOf(valid)).members)
           /\ \E i \in OpenBraces(text) :
                  /\ i < LeastOf(valid)
                  /\ CandidateObject(text, i).kind = "object"
           /\ \E i \in OpenBraces(text) :
                  /\ i < LeastOf(valid)
                  /\ CandidateObject(text, i).kind = "error"

\* -------------------------------------------------------------------- C31
\* The latest two segmenter calls, when two were made.
TwoCalls == Len(segmentation.calls) = 2
FirstCall == segmentation.calls[1]
SecondCall == segmentation.calls[2]
StrictPrefix(s, t) == Len(s) < Len(t) /\ SubSeq(t, 1, Len(s)) = s

\* C31: when a segmenter call on a text that strictly extends the text of
\* the call before it follows a call that returned a non-empty answer, it
\* returns a non-empty answer too.
C31_AnswerNeverRegresses ==
    (/\ TwoCalls
     /\ StrictPrefix(FirstCall.text, SecondCall.text)
     /\ FirstCall.result.answer # "") =>
        SecondCall.result.answer # ""

\* -------------------------------------------------------------------- C32
\* C32: two calls in a row of the same segmenter on the same text return the
\* same reasoning, answer and flags, whatever calls came before.
C32_SameTextSameResult ==
    (/\ TwoCalls
     /\ FirstCall.fn = SecondCall.fn
     /\ FirstCall.text = SecondCall.text) =>
        FirstCall.result = SecondCall.result

\* processCoTResponse was applied twice to a text with the reasoning marker
\* only, and both results carry the answer an earlier call left in the cache.
C32_Witness ==
    /\ TwoCalls
    /\ FirstCall.fn = "processCoTResponse"
    /\ SecondCall.fn = "processCoTResponse"
    /\ FirstCall.text = SecondCall.text
    /\ SecondCall.result.partial
    /\ SecondCall.result.answer # ""
    /\ FirstCall.result = SecondCall.result

\* -------------------------------------------------------------------- C33
\* C33: the result of every segmenter call follows from the markers of its
\* text: both markers give a structured, non-partial result with the text
\* before the answer marker as reasoning and the text after it as answer;
\* the reasoning marker alone gives a structured partial result of stage
\* thinking; no marker gives an unstructured result with the text as answer.
C33_ClassifiedByMarkersAlone ==
    \A i \in 1..Len(segmentation.calls) :
        LET w == segmentation.calls[i].text
            r == segmentation.calls[i].result
            hasStep == FirstAfter(w, StepMarker, 0) > 0
            at == FirstAfter(w, AnswerMarker, 0)
        IN  /\ (hasStep /\ at > 0) =>
                  /\ r.hasStructuredResponse
                  /\ ~r.partial
                  /\ r.thinking = JoinSpace(SubSeq(w, 1, at - 1))
                  /\ r.answer = JoinSpace(SubSeq(w, at + 1, Len(w)))
            /\ (hasStep /\ at = 0) =>
                  /\ r.hasStructuredResponse
                  /\ r.partial
                  /\ r.stage = "thinking"
            /\ (~hasStep /\ at = 0) =>
                  /\ ~r.hasStructuredResponse
                  /\ r.answer = JoinSpace(w)

\* -------------------------------------------------------------------- C34
\* The frames of the nested read_url calls of a web_search.
PrefetchFrames == {i \in 1..Len(stack) : SkipContinue(stack[i].call)}

\* The index in a sequence of the first element equal to x, or 0.
IndexIn(seq, x) ==
    LET idx == {i \in 1..Len(seq) : seq[i] = x}
    IN  IF idx = {} THEN 0 ELSE CHOOSE i \in idx : \A j \in idx : i <= j

\* The Turns appended since the search-summary Turn of the web_search call
\* of frame i, when that Turn is in the history.
SearchTurnAt(i) ==
    IndexIn(chatHistory,
            SearchTurn(TemplateText(Arg(stack[i].call, "query")),
                       Len(stack[i].results)))
TurnsSinceSearch(i) ==
    SubSeq(chatHistory, SearchTurnAt(i) + 1, Len(chatHistory))

\* The history was not cleared since the call of frame i was entered.
NotClearedSince(i) ==
    \E k \in 1..Len(toolLog) :
        /\ toolLog[k].call = stack[i].call
        /\ toolLog[k].epoch = epoch
        /\ toolLog[k].send = sendNo

\* C34: at most one nested read_url call of a web_search is in progress, as
\* the innermost frame over the web_search waiting in its loop; the results
\* are taken in order; and, unless the history was cleared meanwhile, the
\* search-summary Turn is followed by chunk Turns only, of results already
\* started, in the order of the results.
C34_PrefetchSequential ==
    /\ Cardinality(PrefetchFrames) <= 1
    /\ \A i \in PrefetchFrames :
          /\ i = Len(stack)
          /\ i > 1
          /\ stack[i - 1].pc = "ws_loop"
          /\ stack[i - 1].call.tool = "web_search"
    /\ \A i \in 1..Len(stack) :
          (/\ stack[i].pc = "ws_loop"
           /\ NotClearedSince(i)) =>
              LET results == stack[i].results
                  started == Len(results) - Len(stack[i].items)
                  later == TurnsSinceSearch(i)
              IN  /\ stack[i].items = SubSeq(results, started + 1, Len(results))
                  /\ SearchTurnAt(i) > 0
                  /\ \A j \in 1..Len(later) :
                        /\ later[j].content.kind = "chunk"
                        /\ IndexIn(results, later[j].content.ref) \in 1..started
                        /\ j > 1 => IndexIn(results, later[j - 1].content.ref)
                                       <= IndexIn(results, later[j].content.ref)

\* The nested call of the second result has appended its chunk Turn after
\* the two chunk Turns of the first result, the history never cleared.
C34_Witness ==
    /\ PrefetchFrames # {}
    /\ NotClearedSince(Len(stack) - 1)
    /\ Len(stack[Len(stack) - 1].results) = 2
    /\ stack[Len(stack) - 1].items = <<>>
    /\ LET later == TurnsSinceSearch(Len(stack) - 1)
           results == stack[Len(stack) - 1].results
       IN  /\ SearchTurnAt(Len(stack) - 1) > 0
           /\ Len(later) = 3
           /\ later[1].content.ref = results[1]
           /\ later[2].content.ref = results[1]
           /\ later[3].content.ref = results[2]

\* -------------------------------------------------------------------- C35
\* C35: a send pushes its user Turn before its first await, so a send in
\* flight with an empty history is a send during which clearChat ran; from
\* then on, as long as the send is in flight, no step appends a Turn to the
\* cleared history.
C35_NoAppendAfterClearInSend ==
    [][(stack # <<>> /\ chatHistory = <<>>) => chatHistory' = <<>>]_vars

\* -------------------------------------------------------------------- C36
\* The tool-free replies of the send: each was finalized, that is shown as
\* the final answer and appended as a final assistant Turn (C12).
ToolFreeReplies == {i \in 1..Len(sendReplies) : ~HasToolCall(sendReplies[i])}

\* C36: since the latest sendMessage began, at most one tool-free reply was
\* finalized.
C36_AtMostOneFinalization == Cardinality(ToolFreeReplies) <= 1

\* -------------------------------------------------------------------- C37
UserTurnCount(h) == Cardinality({i \in 1..Len(h) : h[i].role = "user"})

\* C37: the step in which sendMessage starts (up to its first await) appends
\* exactly one user Turn, and no later step of the send appends another.
C37_OneUserTurnPerSend ==
    [][/\ (stack = <<>> /\ stack' # <<>>) =>
              UserTurnCount(chatHistory') = UserTurnCount(chatHistory) + 1
       /\ stack # <<>> =>
              UserTurnCount(chatHistory') <= UserTurnCount(chatHistory)]_vars

\* -------------------------------------------------------------------- C38
\* C38: the message list of a pending model generation request holds the
\* system Turn exactly once.
C38_SystemTurnOnceInRequest ==
    GenPending =>
        Cardinality({i \in 1..Len(messages) : messages[i].role = "system"}) = 1

\* -------------------------------------------------------------------- C39
IsPrefix(s, t) == Len(s) <= Len(t) /\ SubSeq(t, 1, Len(s)) = s

\* C39: every step other than init and clearChat leaves the Turns of
\* chatHistory and their order as they are and at most adds Turns at the end.
C39_HistoryAppendOnly ==
    [][~(InitChat \/ ClearChat) => IsPrefix(chatHistory, chatHistory')]_vars

\* A send went through a web search, the pagination of a prefetched page and
\* a continuation that appended the final reply, without any reset: the
\* history holds the Turns of all of them in the order they were appended.
C39_Witness ==
    /\ epoch = 0
    /\ resumes = 1
    /\ Len(ChunkTurns) >= 2
    /\ \E i, j, k, l \in 1..Len(chatHistory) :
          /\ i < j /\ j < k /\ k < l
          /\ chatHistory[i].role = "user"
          /\ chatHistory[j].content.kind = "search"
          /\ chatHistory[k].content.kind = "chunk"
          /\ chatHistory[l].content.kind = "reply"
          /\ l = Len(chatHistory)

\* -------------------------------------------------------------------- C40
\* The backend invocations made for a callKey.
BackendCallsOf(key) == {i \in 1..Len(backendLog) : backendLog[i].key = key}

\* C40: the callKey of every call processToolCall was given since the last
\* init, and of every backend invocation, is in executedToolCalls, whether the
\* backend request failed or the tool is unknown; every later invocation with
\* the same callKey was skipped as a duplicate, and the backend was invoked at
\* most once for it, and never for an unknown tool.
C40_FailedCallStaysExecuted ==
    /\ \A i \in 1..Len(toolLog) : toolLog[i].key \in executedToolCalls
    /\ \A i \in 1..Len(backendLog) : backendLog[i].key \in executedToolCalls
    /\ \A i, j \in 1..Len(toolLog) :
          (i < j /\ toolLog[i].key = toolLog[j].key) => toolLog[j].dup
    /\ \A i \in 1..Len(toolLog) :
          Cardinality(BackendCallsOf(toolLog[i].key))
             <= IF toolLog[i].call.tool \in KnownTools THEN 1 ELSE 0

\* The web search of a call failed (its fallback Turn is in the history), the
\* model gave the identical call again, and it was skipped: the backend was
\* invoked once.
C40_Witness ==
    \E i, j \in 1..Len(toolLog) :
        /\ i < j
        /\ toolLog[i].call.tool = "web_search"
        /\ toolLog[i].call = toolLog[j].call
        /\ ~toolLog[i].dup
        /\ toolLog[j].dup
        /\ FallbackTurn(TemplateText(Arg(toolLog[i].call, "query")))
               \in Range(chatHistory)
        /\ Cardinality(BackendCallsOf(toolLog[i].key)) = 1
        /\ SearchTurn(TemplateText(Arg(toolLog[i].call, "query")), 2)
               \notin Range(chatHistory)
        /\ epoch = 0

====
